---------------------------- MODULE Spec2Model ----------------------------
(***************************************************************************)
(* Onboarding tracker: the access policy (Onboarding/policy.py) and the    *)
(* request handlers of app.py (weeks, tasks, templates, plan assignment)   *)
(* over the relational store.                                              *)
(*                                                                         *)
(* Conventions.                                                            *)
(*  - A Python string is a sequence of one-character strings, so that      *)
(*    str.lower() is computed character by character.                      *)
(*  - Optional[int] / a nullable integer column is a tuple: None is << >>  *)
(*    and the integer n is <<n>>.                                          *)
(*  - SQL predicates are three-valued ("true", "false", "unknown").        *)
(***************************************************************************)
EXTENDS Integers, Sequences, FiniteSets, TLC

VARIABLES
    users,      \* table users: sequence of rows, the id is the position
    weeks,      \* table weeks: sequence of rows, the id is the position
    tasks,      \* table tasks: sequence of rows, the id is the position
    plans,      \* table onboarding_plans
    templates,  \* table onboarding_templates
    sections,   \* table template_sections
    template_tasks, \* table template_tasks
    response,   \* the request being answered and its response, or idle
    call        \* PolicySpec: the policy function applied and its result

\* the tables of plans and of the template layer
plan_tables == <<plans, templates, sections, template_tasks>>

vars == <<users, weeks, tasks, plan_tables, response, call>>

-----------------------------------------------------------------------------
(* Bounds of the model *)

MaxUserId == 2
MaxWeeks == 2

-----------------------------------------------------------------------------
(* Values *)

None == << >>
Some(n) == <<n>>
Opt(S) == {None} \cup {Some(n) : n \in S}

UserIds == 1..MaxUserId

\* string literals
s_admin == <<"a", "d", "m", "i", "n">>
s_manager == <<"m", "a", "n", "a", "g", "e", "r">>
s_user == <<"u", "s", "e", "r">>
s_builder == <<"b", "u", "i", "l", "d", "e", "r">>
s_empty == << >>

UpperCase == <<"A", "B", "C", "D", "E", "F", "G", "H", "I", "J", "K", "L", "M",
               "N", "O", "P", "Q", "R", "S", "T", "U", "V", "W", "X", "Y", "Z">>
LowerCase == <<"a", "b", "c", "d", "e", "f", "g", "h", "i", "j", "k", "l", "m",
               "n", "o", "p", "q", "r", "s", "t", "u", "v", "w", "x", "y", "z">>

\* the lower-case letter of each upper-case letter
LowerOf ==
    [c \in {UpperCase[i] : i \in DOMAIN UpperCase} |->
        LowerCase[CHOOSE i \in DOMAIN UpperCase : UpperCase[i] = c]]

\* str.lower(), one character: other characters are kept
LowerChar(c) == IF c \in DOMAIN LowerOf THEN LowerOf[c] ELSE c

\* str.lower()
lower(s) == [i \in DOMAIN s |-> LowerChar(s[i])]

\* the role strings a caller may send (X-User-Role) or a user row may hold
RoleStrings ==
    { s_admin,
      <<"A", "d", "m", "i", "n">>,
      <<"A", "D", "M", "I", "N">>,
      s_manager,
      <<"M", "a", "n", "a", "g", "e", "r">>,
      s_user,
      <<"U", "S", "E", "R">>,
      s_builder,
      <<"g", "u", "e", "s", "t">>,
      s_empty }

Principals == [user_id : Opt(UserIds), role : RoleStrings]

\* strings that are only compared for equality (e-mail addresses, handler
\* and template names) are kept as TLA+ strings

\* whitespace removed by str.strip()
Whitespace == {" ", "\t", "\n"}

RECURSIVE lstrip(_)
lstrip(s) ==
    IF s # << >> /\ Head(s) \in Whitespace THEN lstrip(Tail(s)) ELSE s

RECURSIVE rstrip(_)
rstrip(s) ==
    IF s # << >> /\ s[Len(s)] \in Whitespace
    THEN rstrip(SubSeq(s, 1, Len(s) - 1))
    ELSE s

\* str.strip()
strip(s) == rstrip(lstrip(s))

Digits == <<"0", "1", "2", "3", "4", "5", "6", "7", "8", "9">>

DigitValue(c) == (CHOOSE i \in DOMAIN Digits : Digits[i] = c) - 1

IsDigits(s) ==
    /\ s # << >>
    /\ \A i \in DOMAIN s : \E k \in DOMAIN Digits : Digits[k] = s[i]

\* the value of a string of decimal digits
RECURSIVE DecimalValue(_)
DecimalValue(s) ==
    IF s = << >> THEN 0
    ELSE 10 * DecimalValue(SubSeq(s, 1, Len(s) - 1)) + DigitValue(s[Len(s)])

-----------------------------------------------------------------------------
(* Onboarding/policy.py *)

\* Principal.normalized_role: (self.role or "").lower()
normalized_role_identity(principal) == principal.role

normalized_role(principal) ==
    LET role_or_empty == IF principal.role = s_empty THEN s_empty
                         ELSE principal.role
    IN lower(role_or_empty)

can_access_week_manager_for_user(principal, week) ==
    LET role == normalized_role(principal) IN
    IF role = s_admin THEN TRUE
    ELSE IF principal.user_id = None THEN FALSE
    ELSE IF role = s_manager \/ role = s_user
         THEN \/ week.manager_user_id = principal.user_id
              \/ week.owner_user_id = principal.user_id
    ELSE FALSE

can_access_week_owner_first(principal, week) ==
    LET role == normalized_role(principal) IN
    IF week.owner_user_id = principal.user_id THEN TRUE
    ELSE IF role = s_admin THEN TRUE
    ELSE IF principal.user_id = None THEN FALSE
    ELSE IF role = s_manager THEN week.manager_user_id = principal.user_id
    ELSE FALSE

can_access_week_admin_needs_id(principal, week) ==
    LET role == normalized_role(principal) IN
    IF principal.user_id = None THEN FALSE
    ELSE IF role = s_admin THEN TRUE
    ELSE IF role = s_manager
         THEN \/ week.manager_user_id = principal.user_id
              \/ week.owner_user_id = principal.user_id
    ELSE IF role = s_user THEN week.owner_user_id = principal.user_id
    ELSE FALSE

can_access_week_manager_owner_only(principal, week) ==
    LET role == normalized_role(principal) IN
    IF role = s_admin THEN TRUE
    ELSE IF principal.user_id = None THEN FALSE
    ELSE IF role = s_manager \/ role = s_user
         THEN week.owner_user_id = principal.user_id
    ELSE FALSE

\* can_access_week(principal, week)
can_access_week(principal, week) ==
    LET role == normalized_role(principal) IN
    IF role = s_admin THEN TRUE
    ELSE IF principal.user_id = None THEN FALSE
    ELSE IF role = s_manager
         THEN \/ week.manager_user_id = principal.user_id
              \/ week.owner_user_id = principal.user_id
    ELSE IF role = s_user THEN week.owner_user_id = principal.user_id
    ELSE FALSE

ensure_week_access_inverted(principal, week) ==
    IF can_access_week(principal, week) THEN "abort403" ELSE "return"

\* ensure_week_access(principal, week): abort(403) or return None
ensure_week_access(principal, week) ==
    IF ~can_access_week(principal, week) THEN "abort403" ELSE "return"

\* SQLAlchemy `column == value`: `column IS NULL` when value is None,
\* `column = value` otherwise, which is unknown on a NULL column
SqlEq(column, value) ==
    IF value = None
    THEN (IF column = None THEN "true" ELSE "false")
    ELSE IF column = None THEN "unknown"
    ELSE IF column = value THEN "true" ELSE "false"

\* SQL OR (or_)
SqlOr(a, b) ==
    IF a = "true" \/ b = "true" THEN "true"
    ELSE IF a = "unknown" \/ b = "unknown" THEN "unknown"
    ELSE "false"

\* Week.query: every row of the table
WeekQuery == {weeks[i] : i \in DOMAIN weeks}

\* Query.filter(criterion): the rows on which the criterion is true
SqlFilter(rows, criterion) == {w \in rows : criterion[w] = "true"}

\* sqlalchemy.false()
SqlFalse == [w \in WeekQuery |-> "false"]

filter_weeks_for_principal_no_null_guard(principal) ==
    LET role == normalized_role(principal)
        ManagerCriterion ==
            [w \in WeekQuery |->
                SqlOr(SqlEq(w.manager_user_id, principal.user_id),
                      SqlEq(w.owner_user_id, principal.user_id))]
        UserCriterion ==
            [w \in WeekQuery |-> SqlEq(w.owner_user_id, principal.user_id)]
    IN
    IF role = s_admin THEN WeekQuery
    ELSE IF role = s_manager THEN SqlFilter(WeekQuery, ManagerCriterion)
    ELSE IF role = s_user THEN SqlFilter(WeekQuery, UserCriterion)
    ELSE SqlFilter(WeekQuery, SqlFalse)

\* filter_weeks_for_principal(principal): the rows of the returned query
filter_weeks_for_principal(principal) ==
    LET role == normalized_role(principal)
        ManagerCriterion ==
            [w \in WeekQuery |->
                SqlOr(SqlEq(w.manager_user_id, principal.user_id),
                      SqlEq(w.owner_user_id, principal.user_id))]
        UserCriterion ==
            [w \in WeekQuery |-> SqlEq(w.owner_user_id, principal.user_id)]
    IN
    IF role = s_admin THEN WeekQuery
    ELSE IF principal.user_id = None THEN SqlFilter(WeekQuery, SqlFalse)
    ELSE IF role = s_manager THEN SqlFilter(WeekQuery, ManagerCriterion)
    ELSE IF role = s_user THEN SqlFilter(WeekQuery, UserCriterion)
    ELSE SqlFilter(WeekQuery, SqlFalse)

\* _parse_int(value): int(value), None for None and for a ValueError.
\* (int() also takes a sign, surrounding blanks and underscores; the header
\* values drawn below hold none.)
_parse_int(value) ==
    IF value = None THEN None
    ELSE IF IsDigits(value[1]) THEN Some(DecimalValue(value[1]))
    ELSE None

\* get_current_principal(): the principal of the request headers. g.principal
\* caches it for the rest of the request; no handler asks twice.
get_current_principal(headers) ==
    [user_id |-> _parse_int(headers.id),
     role |-> IF headers.role = None THEN s_user ELSE headers.role[1]]

-----------------------------------------------------------------------------
(* PolicySpec: the policy functions applied to drawn inputs *)

\* a Week row as the test helper _make_week builds it: owner and manager
\* set or null, no plan
MakeWeek(id, owner, manager) ==
    [id |-> id, owner_user_id |-> owner, manager_user_id |-> manager,
     onboarding_plan_id |-> None]

WeekStores ==
    UNION { { [i \in 1..n |-> MakeWeek(i, om[i][1], om[i][2])] :
              om \in [1..n -> Opt(UserIds) \X Opt(UserIds)] } : n \in 0..MaxWeeks }

NoCall == [fn |-> "none"]
Idle == [handler |-> "idle"]

PolicyInit ==
    /\ users = << >>
    /\ weeks \in WeekStores
    /\ tasks = << >>
    /\ plans = << >>
    /\ templates = << >>
    /\ sections = << >>
    /\ template_tasks = << >>
    /\ response = Idle
    /\ call = NoCall

CallCanAccessWeek ==
    /\ call = NoCall
    /\ \E p \in Principals, w \in WeekQuery :
          call' = [fn |-> "can_access_week", principal |-> p, week |-> w,
                   result |-> can_access_week(p, w)]
    /\ UNCHANGED <<users, weeks, tasks, plan_tables, response>>

CallEnsureWeekAccess ==
    /\ call = NoCall
    /\ \E p \in Principals, w \in WeekQuery :
          call' = [fn |-> "ensure_week_access", principal |-> p, week |-> w,
                   result |-> ensure_week_access(p, w)]
    /\ UNCHANGED <<users, weeks, tasks, plan_tables, response>>

CallFilterWeeks ==
    /\ call = NoCall
    /\ \E p \in Principals :
          call' = [fn |-> "filter_weeks_for_principal", principal |-> p,
                   result |-> filter_weeks_for_principal(p)]
    /\ UNCHANGED <<users, weeks, tasks, plan_tables, response>>

PolicyNext ==
    \/ CallCanAccessWeek
    \/ CallEnsureWeekAccess
    \/ CallFilterWeeks

PolicySpec == PolicyInit /\ [][PolicyNext]_vars

-----------------------------------------------------------------------------
(* Claims on the access policy, checked under PolicySpec *)

\* two strings that differ at most in the case of their letters
SameIgnoringCase(a, b) ==
    /\ Len(a) = Len(b)
    /\ \A i \in DOMAIN a :
          \/ a[i] = b[i]
          \/ \E k \in DOMAIN UpperCase :
                {a[i], b[i]} = {UpperCase[k], LowerCase[k]}

\* C1: filter_weeks_for_principal(p) returns exactly the stored Weeks w with
\* can_access_week(p, w), for every role and every store (null owners and
\* managers included), and nothing when p.user_id is null and p is not admin.
C1_FilterIsCanAccess ==
    call.fn = "filter_weeks_for_principal" =>
        /\ call.result = {w \in WeekQuery : can_access_week(call.principal, w)}
        /\ (call.principal.user_id = None /\ lower(call.principal.role) # s_admin
               => call.result = {})

\* a non-admin caller without id filters a store that holds a week without owner
C1_Witness ==
    /\ call.fn = "filter_weeks_for_principal"
    /\ call.principal.user_id = None
    /\ call.principal.role = s_manager
    /\ \E w \in WeekQuery : w.owner_user_id = None
    /\ \E w \in WeekQuery : w.owner_user_id # None
    /\ call.result = {}

\* C2: an admin may access every Week, with or without user_id, whatever the
\* Week's owner and manager are.
C2_AdminAlways ==
    (call.fn = "can_access_week" /\ call.principal.role = s_admin)
        => call.result = TRUE

\* an admin without id is granted a week owned and managed by others
C2_Witness ==
    /\ call.fn = "can_access_week"
    /\ call.principal.role = s_admin
    /\ call.principal.user_id = None
    /\ call.week.owner_user_id # None
    /\ call.result = TRUE

\* C3: a user with a user_id may access a Week iff the user owns it; managing
\* it grants nothing.
C3_UserOwnerOnly ==
    (/\ call.fn = "can_access_week"
     /\ call.principal.role = s_user
     /\ call.principal.user_id # None)
        => (call.result <=> call.week.owner_user_id = call.principal.user_id)

\* a user who is the manager of the week, not its owner, is refused
C3_Witness ==
    /\ call.fn = "can_access_week"
    /\ call.principal.role = s_user
    /\ call.principal.user_id # None
    /\ call.week.manager_user_id = call.principal.user_id
    /\ call.week.owner_user_id # call.principal.user_id
    /\ call.result = FALSE

\* C4 as stated: a manager, user_id set or not, may access a Week iff
\* w.owner_user_id equals p.user_id or w.manager_user_id equals p.user_id.
C4_ManagerIffOwnerOrManager ==
    (call.fn = "can_access_week" /\ call.principal.role = s_manager)
        => (call.result <=>
               \/ call.week.owner_user_id = call.principal.user_id
               \/ call.week.manager_user_id = call.principal.user_id)

\* C4 amended: a manager with a user_id may access a Week iff that id is the
\* Week's owner or manager; a manager without user_id may access no Week.
C4_ManagerWithId ==
    (call.fn = "can_access_week" /\ call.principal.role = s_manager)
        => (call.result <=>
               /\ call.principal.user_id # None
               /\ \/ call.week.owner_user_id = call.principal.user_id
                  \/ call.week.manager_user_id = call.principal.user_id)

\* a manager is granted a week of a report, which the manager does not own
C4_Witness ==
    /\ call.fn = "can_access_week"
    /\ call.principal.role = s_manager
    /\ call.principal.user_id # None
    /\ call.week.manager_user_id = call.principal.user_id
    /\ call.week.owner_user_id # call.principal.user_id
    /\ call.result = TRUE

\* C5: deny by default: no access for a non-admin without user_id, and none
\* for a role that is none of admin, manager, user, even for the Week's owner.
C5_DenyByDefault ==
    call.fn = "can_access_week" =>
        /\ (lower(call.principal.role) # s_admin /\ call.principal.user_id = None
               => call.result = FALSE)
        /\ (lower(call.principal.role) \notin {s_admin, s_manager, s_user}
               => call.result = FALSE)

\* a builder who owns the week is refused
C5_Witness ==
    /\ call.fn = "can_access_week"
    /\ call.principal.role = s_builder
    /\ call.principal.user_id # None
    /\ call.week.owner_user_id = call.principal.user_id
    /\ call.result = FALSE

\* C6: ensure_week_access(p, w) aborts with 403 exactly when
\* can_access_week(p, w) is false, and a call that returns leaves the store
\* and the request state as they were.
C6_EnsureAborts403 ==
    [][call'.fn = "ensure_week_access" =>
          /\ (call'.result = "abort403"
                 <=> ~can_access_week(call'.principal, call'.week))
          /\ call'.result \in {"abort403", "return"}
          /\ (call'.result = "return"
                 => UNCHANGED <<users, weeks, tasks, response>>)]_vars

\* a manager is refused a week of somebody else's report
C6_Witness ==
    /\ call.fn = "ensure_week_access"
    /\ call.principal.role = s_manager
    /\ call.principal.user_id # None
    /\ call.week.manager_user_id # None
    /\ call.result = "abort403"

\* C7: principals that differ only in the letter case of the role get the same
\* answer from can_access_week and the same rows from
\* filter_weeks_for_principal.
C7_RoleCaseInsensitive ==
    \A r \in RoleStrings :
        (call.fn # "none" /\ SameIgnoringCase(r, call.principal.role)) =>
            LET q == [user_id |-> call.principal.user_id, role |-> r] IN
            /\ call.fn = "can_access_week"
                  => can_access_week(q, call.week) = call.result
            /\ call.fn = "filter_weeks_for_principal"
                  => filter_weeks_for_principal(q) = call.result

\* 'Admin' is granted like 'admin'
C7_Witness ==
    /\ call.fn = "can_access_week"
    /\ call.principal.role = <<"A", "d", "m", "i", "n">>
    /\ call.principal.user_id = None
    /\ call.result = TRUE

-----------------------------------------------------------------------------
(* app.py: the store the handlers run on *)

MaxTasks == 1

NOT_STARTED == <<"N", "o", "t", " ", "S", "t", "a", "r", "t", "e", "d">>
IN_PROGRESS == <<"I", "n", " ", "P", "r", "o", "g", "r", "e", "s", "s">>
COMPLETE == <<"C", "o", "m", "p", "l", "e", "t", "e">>

\* [e.value for e in StatusEnum]
StatusEnum == {NOT_STARTED, IN_PROGRESS, COMPLETE}

\* users as the role tests set them up: a manager, a report of that manager on
\* another plan, an admin without plan
UsersFixture ==
    << [id |-> 1, email |-> "manager@test.com", role |-> s_manager,
        onboarding_plan_id |-> Some(1), manager_id |-> None],
       [id |-> 2, email |-> "user@test.com", role |-> s_user,
        onboarding_plan_id |-> Some(2), manager_id |-> Some(1)],
       [id |-> 3, email |-> "admin@test.com", role |-> s_admin,
        onboarding_plan_id |-> None, manager_id |-> None] >>

\* variant: the owner is recorded as the manager
Week_managed_by_owner(id, plan, title, start, end, owner, manager) ==
    [id |-> id, onboarding_plan_id |-> plan, title |-> title,
     start_date |-> start, end_date |-> end,
     owner_user_id |-> owner, manager_user_id |-> owner]

\* a Week row: Week(onboarding_plan_id, title, start_date, end_date,
\* owner_user_id, manager_user_id); dates are day ordinals
Week(id, plan, title, start, end, owner, manager) ==
    [id |-> id, onboarding_plan_id |-> plan, title |-> title,
     start_date |-> start, end_date |-> end,
     owner_user_id |-> owner, manager_user_id |-> manager]

\* week titles
s_week_1 == <<"W", "e", "e", "k", " ", "1">>
s_user_week == <<"U", "s", "e", "r", " ", "W", "e", "e", "k">>

\* the two plans the fixture users are on
PlansFixture ==
    << [id |-> 1, name |-> <<"A", "l", "p", "h", "a">>, description |-> None],
       [id |-> 2, name |-> <<"B", "e", "t", "a">>, description |-> None] >>

\* the weeks of the report's plan and of the manager's plan, as the plan
\* materializer builds them (owner = employee.id, manager =
\* employee.manager_id), and a week outside every plan as _make_week builds it
WeeksFixture ==
    << Week(1, Some(2), s_week_1, Some(739257), Some(739263), Some(2), Some(1)),
       Week(2, Some(1), s_week_1, Some(739257), Some(739263), Some(1), None),
       Week(3, None, s_user_week, None, None, Some(2), Some(1)) >>

UserQuery == {users[i] : i \in DOMAIN users}
TaskQuery == {tasks[i] : i \in DOMAIN tasks}

\* Query.first() of a query ordered by id, None for no row
FirstById(rows) ==
    IF rows = {} THEN None
    ELSE Some(CHOOSE r \in rows : \A q \in rows : r.id <= q.id)

-----------------------------------------------------------------------------
(* app.py: helpers *)

\* what a handler does: a response, and the tasks table it leaves
Abort(code) == [status |-> code, body |-> [aborted |-> TRUE], tasks |-> tasks]

Render(template, context, code) ==
    [status |-> code, body |-> [template |-> template, context |-> context],
     tasks |-> tasks]

Redirect(endpoint, values, table) ==
    [status |-> 302, body |-> [redirect |-> endpoint, values |-> values],
     tasks |-> table]

\* current_user(): the user of X-User-Email / as_user, else the first user;
\* None stands for abort(404)
current_user(request) ==
    IF request.email # None /\ request.email[1] # ""
    THEN FirstById({u \in UserQuery : u.email = request.email[1]})
    ELSE FirstById(UserQuery)

\* variant: without an X-User-Id header the id of the user is kept
resolve_principal_keeping_user_id(request, user) ==
    IF request.role # None \/ request.id # None
    THEN [get_current_principal(request) EXCEPT
             !.user_id = IF request.id = None THEN Some(user.id) ELSE @]
    ELSE [user_id |-> Some(user.id), role |-> user.role]

\* resolve_principal(user)
resolve_principal(request, user) ==
    IF request.role # None \/ request.id # None
    THEN get_current_principal(request)
    ELSE [user_id |-> Some(user.id), role |-> user.role]

\* weeks_for_plan(plan_id): the plan's weeks by start_date (nulls first), id
WeekBefore(a, b) ==
    IF a.start_date = b.start_date THEN a.id < b.id
    ELSE IF a.start_date = None THEN TRUE
    ELSE IF b.start_date = None THEN FALSE
    ELSE a.start_date[1] < b.start_date[1]

RECURSIVE OrderWeeks(_)
OrderWeeks(rows) ==
    IF rows = {} THEN << >>
    ELSE LET first == CHOOSE r \in rows :
                          \A q \in rows \ {r} : WeekBefore(r, q)
         IN <<first>> \o OrderWeeks(rows \ {first})

weeks_for_plan(plan_id) ==
    IF plan_id = None THEN << >>
    ELSE OrderWeeks({w \in WeekQuery :
                        SqlEq(w.onboarding_plan_id, plan_id) = "true"})

\* variant: a week the user owns is found as well
ensure_week_for_user_or_owner(week_id, user) ==
    FirstById({w \in WeekQuery :
                  /\ w.id = week_id
                  /\ \/ SqlEq(w.onboarding_plan_id, user.onboarding_plan_id)
                            = "true"
                     \/ w.owner_user_id = Some(user.id)})

\* ensure_week_for_user(week_id, user): the Week, None for abort(404)
ensure_week_for_user(week_id, user) ==
    FirstById({w \in WeekQuery :
                  /\ w.id = week_id
                  /\ SqlEq(w.onboarding_plan_id, user.onboarding_plan_id)
                         = "true"})

\* Task.week
WeekOf(task) == CHOOSE w \in WeekQuery : w.id = task.week_id

\* variant: the task is looked up by id alone
ensure_task_for_user_any_plan(task_id, user) ==
    LET found == {t \in TaskQuery : t.id = task_id} IN
    IF found = {} THEN None
    ELSE Some(CHOOSE t \in found : TRUE)

\* ensure_task_for_user(task_id, user): the Task, None for abort(404)
ensure_task_for_user(task_id, user) ==
    LET found == {t \in TaskQuery : t.id = task_id} IN
    IF found = {} THEN None
    ELSE LET task == CHOOSE t \in found : TRUE IN
         IF WeekOf(task).onboarding_plan_id # user.onboarding_plan_id
         THEN None
         ELSE Some(task)

\* ORDER BY sort_order ASC, id ASC (sort_order NULL sorts first)
TaskBefore(a, b) ==
    IF a.sort_order = b.sort_order THEN a.id < b.id
    ELSE IF a.sort_order = None THEN TRUE
    ELSE IF b.sort_order = None THEN FALSE
    ELSE a.sort_order[1] < b.sort_order[1]

RECURSIVE OrderTasks(_)
OrderTasks(rows) ==
    IF rows = {} THEN << >>
    ELSE LET first == CHOOSE r \in rows :
                          \A q \in rows \ {r} : TaskBefore(r, q)
         IN <<first>> \o OrderTasks(rows \ {first})

-----------------------------------------------------------------------------
(* app.py: basic pages *)

\* GET /weeks
weeks_page(request) ==
    LET user == current_user(request) IN
    IF user = None THEN Abort(404)
    ELSE Render("weeks.html",
                [weeks |-> weeks_for_plan(user[1].onboarding_plan_id),
                 user |-> user[1].id], 200)

\* GET /weeks/<week_id>
week_detail(request, week_id) ==
    LET user == current_user(request) IN
    IF user = None THEN Abort(404)
    ELSE LET w == ensure_week_for_user(week_id, user[1]) IN
         IF w = None THEN Abort(404)
         ELSE Render("week_detail.html",
                     [w |-> w[1],
                      tasks |-> OrderTasks({t \in TaskQuery :
                                               t.week_id = w[1].id}),
                      user |-> user[1].id], 200)

-----------------------------------------------------------------------------
(* datetime.strptime(s, fmt).date() for the formats the handlers use *)

\* the fields of s between the separators
RECURSIVE Split(_, _)
Split(s, sep) ==
    IF \A i \in DOMAIN s : s[i] # sep THEN <<s>>
    ELSE LET k == CHOOSE i \in DOMAIN s :
                      s[i] = sep /\ \A j \in 1..(i - 1) : s[j] # sep
         IN <<SubSeq(s, 1, k - 1)>> \o Split(SubSeq(s, k + 1, Len(s)), sep)

IsLeap(year) == year % 4 = 0 /\ (year % 100 # 0 \/ year % 400 = 0)

DaysInMonth(year, month) ==
    IF month = 2 THEN (IF IsLeap(year) THEN 29 ELSE 28)
    ELSE IF month \in {4, 6, 9, 11} THEN 30 ELSE 31

RECURSIVE DaysBeforeMonth(_, _)
DaysBeforeMonth(year, month) ==
    IF month = 1 THEN 0
    ELSE DaysBeforeMonth(year, month - 1) + DaysInMonth(year, month - 1)

\* date(year, month, day).toordinal()
ToOrdinal(year, month, day) ==
    LET y == year - 1 IN
    y * 365 + (y \div 4) - (y \div 100) + (y \div 400)
      + DaysBeforeMonth(year, month) + day

\* %Y: four digits; %y: two digits, 69-99 in 1900, 00-68 in 2000;
\* %m and %d: one or two digits
YearField(f, directive) ==
    IF directive = "%Y"
    THEN (IF IsDigits(f) /\ Len(f) = 4 THEN Some(DecimalValue(f)) ELSE None)
    ELSE IF IsDigits(f) /\ Len(f) = 2
         THEN Some(IF DecimalValue(f) >= 69 THEN 1900 + DecimalValue(f)
                   ELSE 2000 + DecimalValue(f))
         ELSE None

SmallField(f, max) ==
    IF IsDigits(f) /\ Len(f) <= 2 /\ DecimalValue(f) \in 1..max
    THEN Some(DecimalValue(f))
    ELSE None

\* date(y, m, d), None for the ValueError of a date that does not exist
MakeDate(y, m, d) ==
    IF y = None \/ m = None \/ d = None THEN None
    ELSE IF y[1] < 1 \/ d[1] > DaysInMonth(y[1], m[1]) THEN None
    ELSE Some(ToOrdinal(y[1], m[1], d[1]))

\* strptime(s, fmt).date() as a day ordinal, None for ValueError
strptime_date(s, fmt) ==
    IF fmt = "%Y-%m-%d"
    THEN LET f == Split(s, "-") IN
         IF Len(f) # 3 THEN None
         ELSE MakeDate(YearField(f[1], "%Y"), SmallField(f[2], 12),
                       SmallField(f[3], 31))
    ELSE LET f == Split(s, "/") IN
         IF Len(f) # 3 THEN None
         ELSE MakeDate(YearField(f[3], IF fmt = "%m/%d/%y" THEN "%y" ELSE "%Y"),
                       SmallField(f[1], 12), SmallField(f[2], 31))

-----------------------------------------------------------------------------
(* app.py: create task *)

\* Task(...) inserted: the id is the next row id, status defaults to
\* StatusEnum.NOT_STARTED.value
InsertTask(week_id, title, goal, topic, notes, sort_order, status, due_date) ==
    Append(tasks,
           [id |-> Len(tasks) + 1, week_id |-> week_id, title |-> title,
            goal |-> goal, topic |-> topic, notes |-> notes,
            sort_order |-> sort_order, status |-> status,
            due_date |-> due_date])

\* variant: the tasks of every week are counted
add_task_counting_all(request, week_id, form) ==
    LET user == current_user(request) IN
    IF user = None THEN Abort(404)
    ELSE LET principal == resolve_principal(request, user[1])
             w == ensure_week_for_user(week_id, user[1])
         IN
         IF w = None THEN Abort(404)
         ELSE IF ensure_week_access(principal, w[1]) = "abort403"
              THEN Abort(403)
         ELSE LET title == strip(form.goal)
                  topic == strip(form.topic)
                  notes == strip(form.notes)
                  due_raw == strip(form.due_date)
                  due_date == IF due_raw # << >>
                              THEN strptime_date(due_raw, "%Y-%m-%d")
                              ELSE None
                  count == Cardinality(TaskQuery)
              IN Redirect("week_detail",
                          [week_id |-> w[1].id, as_user |-> user[1].email],
                          InsertTask(w[1].id, Some(title), None, Some(topic),
                                     notes, Some(count + 1), NOT_STARTED,
                                     due_date))

\* POST /weeks/<week_id>/tasks
add_task(request, week_id, form) ==
    LET user == current_user(request) IN
    IF user = None THEN Abort(404)
    ELSE LET principal == resolve_principal(request, user[1])
             w == ensure_week_for_user(week_id, user[1])
         IN
         IF w = None THEN Abort(404)
         ELSE IF ensure_week_access(principal, w[1]) = "abort403"
              THEN Abort(403)
         ELSE LET title == strip(form.goal)
                  topic == strip(form.topic)
                  notes == strip(form.notes)
                  due_raw == strip(form.due_date)
                  due_date == IF due_raw # << >>
                              THEN strptime_date(due_raw, "%Y-%m-%d")
                              ELSE None
                  count == Cardinality({t \in TaskQuery : t.week_id = w[1].id})
              IN Redirect("week_detail",
                          [week_id |-> w[1].id, as_user |-> user[1].email],
                          InsertTask(w[1].id, Some(title), None, Some(topic),
                                     notes, Some(count + 1), NOT_STARTED,
                                     due_date))

-----------------------------------------------------------------------------
(* app.py: inline views and edits of a task *)

\* the body the GET handlers of a task fragment share: the user, the
\* principal, the task (404), the week access (403), the fragment
task_fragment(request, task_id, template) ==
    LET user == current_user(request) IN
    IF user = None THEN Abort(404)
    ELSE LET principal == resolve_principal(request, user[1])
             t == ensure_task_for_user(task_id, user[1])
         IN
         IF t = None THEN Abort(404)
         ELSE IF ensure_week_access(principal, WeekOf(t[1])) = "abort403"
              THEN Abort(403)
         ELSE Render(template, [t |-> t[1], user |-> user[1].id], 200)

\* GET /tasks/<task_id>/notes/edit
edit_notes_form(request, task_id) ==
    task_fragment(request, task_id, "_task_notes_form.html")

\* GET /tasks/<task_id>/notes/cancel
cancel_notes_edit(request, task_id) ==
    task_fragment(request, task_id, "_task_notes_display.html")

\* GET /tasks/<task_id>/due-date/form
edit_date_form(request, task_id) ==
    task_fragment(request, task_id, "_task_date_form.html")

\* GET /tasks/<task_id>/due-date/display
date_display(request, task_id) ==
    task_fragment(request, task_id, "_task_date_display.html")

\* GET /tasks/<task_id>/status/edit
edit_status_form(request, task_id) ==
    task_fragment(request, task_id, "_task_status_form.html")

\* GET /tasks/<task_id>/status/view
view_status(request, task_id) ==
    task_fragment(request, task_id, "_task_status_display.html")

\* GET /tasks/<task_id>/status/cancel: the user and the task only
cancel_status_edit(request, task_id) ==
    LET user == current_user(request) IN
    IF user = None THEN Abort(404)
    ELSE LET t == ensure_task_for_user(task_id, user[1]) IN
         IF t = None THEN Abort(404)
         ELSE Render("_task_status_display.html",
                     [t |-> t[1], user |-> user[1].id], 200)

\* the row written back by commit
UpdateTask(task) == [tasks EXCEPT ![task.id] = task]

\* the fragment of the changed task, or the redirect to its week
SavedResponse(hx, template, user, task) ==
    IF hx
    THEN [status |-> 200,
          body |-> [template |-> template,
                    context |-> [t |-> task, user |-> user.id]],
          tasks |-> UpdateTask(task)]
    ELSE Redirect("week_detail",
                  [week_id |-> task.week_id, as_user |-> user.email],
                  UpdateTask(task))

\* POST /tasks/<task_id>/notes
update_notes(request, task_id, form, hx) ==
    LET user == current_user(request) IN
    IF user = None THEN Abort(404)
    ELSE LET principal == resolve_principal(request, user[1])
             t == ensure_task_for_user(task_id, user[1])
         IN
         IF t = None THEN Abort(404)
         ELSE IF ensure_week_access(principal, WeekOf(t[1])) = "abort403"
              THEN Abort(403)
         ELSE SavedResponse(hx, "_task_notes_display.html", user[1],
                            [t[1] EXCEPT !.notes = strip(form.notes)])

\* _parse_due_date(s): the first of the three formats that parses
_parse_due_date(text) ==
    LET s == strip(text) IN
    IF s = << >> THEN None
    ELSE IF strptime_date(s, "%Y-%m-%d") # None
         THEN strptime_date(s, "%Y-%m-%d")
    ELSE IF strptime_date(s, "%m/%d/%y") # None
         THEN strptime_date(s, "%m/%d/%y")
    ELSE strptime_date(s, "%m/%d/%Y")

\* variant: a text that is no date clears the stored date
update_due_date_clearing_on_error(request, task_id, form, hx) ==
    LET user == current_user(request) IN
    IF user = None THEN Abort(404)
    ELSE LET principal == resolve_principal(request, user[1])
             t == ensure_task_for_user(task_id, user[1])
         IN
         IF t = None THEN Abort(404)
         ELSE IF ensure_week_access(principal, WeekOf(t[1])) = "abort403"
              THEN Abort(403)
         ELSE IF form.clear = <<"1">>
              THEN SavedResponse(hx, "_task_date_display.html", user[1],
                                 [t[1] EXCEPT !.due_date = None])
         ELSE LET raw == strip(IF form.due_date # << >> THEN form.due_date
                               ELSE form.due_date_text)
                  parsed == _parse_due_date(raw)
              IN
              IF raw # << >> /\ parsed = None
              THEN [Render("_task_date_form.html",
                           [t |-> t[1],
                            error |-> "Enter a valid date (MM/DD/YY)."],
                           400)
                       EXCEPT !.tasks =
                           UpdateTask([t[1] EXCEPT !.due_date = None])]
              ELSE SavedResponse(TRUE, "_task_date_display.html", user[1],
                                 [t[1] EXCEPT !.due_date = parsed])

\* POST /tasks/<task_id>/due-date
update_due_date(request, task_id, form, hx) ==
    LET user == current_user(request) IN
    IF user = None THEN Abort(404)
    ELSE LET principal == resolve_principal(request, user[1])
             t == ensure_task_for_user(task_id, user[1])
         IN
         IF t = None THEN Abort(404)
         ELSE IF ensure_week_access(principal, WeekOf(t[1])) = "abort403"
              THEN Abort(403)
         ELSE IF form.clear = <<"1">>
              THEN SavedResponse(hx, "_task_date_display.html", user[1],
                                 [t[1] EXCEPT !.due_date = None])
         ELSE LET raw == strip(IF form.due_date # << >> THEN form.due_date
                               ELSE form.due_date_text)
                  parsed == _parse_due_date(raw)
              IN
              IF raw # << >> /\ parsed = None
              THEN Render("_task_date_form.html",
                          [t |-> t[1], error |-> "Enter a valid date (MM/DD/YY)."],
                          400)
              ELSE SavedResponse(TRUE, "_task_date_display.html", user[1],
                                 [t[1] EXCEPT !.due_date = parsed])

\* variant: every label that is not empty is stored
update_status_any_label(request, task_id, form, hx) ==
    LET user == current_user(request) IN
    IF user = None THEN Abort(404)
    ELSE LET principal == resolve_principal(request, user[1])
             t == ensure_task_for_user(task_id, user[1])
         IN
         IF t = None THEN Abort(404)
         ELSE IF ensure_week_access(principal, WeekOf(t[1])) = "abort403"
              THEN Abort(403)
         ELSE LET label == strip(form.status) IN
              IF label = << >>
              THEN IF hx
                   THEN Render("_task_status_form.html",
                               [t |-> t[1], error |-> "Invalid status"], 400)
                   ELSE Redirect("week_detail",
                                 [week_id |-> t[1].week_id,
                                  as_user |-> user[1].email], tasks)
              ELSE SavedResponse(hx, "_task_status_display.html", user[1],
                                 [t[1] EXCEPT !.status = label])

\* variant: the form with the error also answers a request without HX-Request
update_status_error_page_always(request, task_id, form, hx) ==
    LET user == current_user(request) IN
    IF user = None THEN Abort(404)
    ELSE LET principal == resolve_principal(request, user[1])
             t == ensure_task_for_user(task_id, user[1])
         IN
         IF t = None THEN Abort(404)
         ELSE IF ensure_week_access(principal, WeekOf(t[1])) = "abort403"
              THEN Abort(403)
         ELSE LET label == strip(form.status) IN
              IF label \notin StatusEnum
              THEN IF TRUE
                   THEN Render("_task_status_form.html",
                               [t |-> t[1], error |-> "Invalid status"], 400)
                   ELSE Redirect("week_detail",
                                 [week_id |-> t[1].week_id,
                                  as_user |-> user[1].email], tasks)
              ELSE SavedResponse(hx, "_task_status_display.html", user[1],
                                 [t[1] EXCEPT !.status = label])

\* POST /tasks/<task_id>/status
update_status(request, task_id, form, hx) ==
    LET user == current_user(request) IN
    IF user = None THEN Abort(404)
    ELSE LET principal == resolve_principal(request, user[1])
             t == ensure_task_for_user(task_id, user[1])
         IN
         IF t = None THEN Abort(404)
         ELSE IF ensure_week_access(principal, WeekOf(t[1])) = "abort403"
              THEN Abort(403)
         ELSE LET label == strip(form.status) IN
              IF label \notin StatusEnum
              THEN IF hx
                   THEN Render("_task_status_form.html",
                               [t |-> t[1], error |-> "Invalid status"], 400)
                   ELSE Redirect("week_detail",
                                 [week_id |-> t[1].week_id,
                                  as_user |-> user[1].email], tasks)
              ELSE SavedResponse(hx, "_task_status_display.html", user[1],
                                 [t[1] EXCEPT !.status = label])

-----------------------------------------------------------------------------
(* Spec: requests against the store *)

\* the requests drawn: who asks (X-User-Email / as_user) and the principal
\* headers X-User-Role and X-User-Id, each present or absent
Requests ==
    [email : {None, Some("manager@test.com"), Some("user@test.com"),
              Some("admin@test.com"), Some("nobody@test.com")},
     role : {None, Some(s_admin), Some(s_manager), Some(s_user)},
     id : {None, Some(<<"1">>), Some(<<"2">>), Some(<<"x">>)}]

WeekIdInputs == 1..(Len(weeks) + 1)
TaskIdInputs == 1..(Len(tasks) + 1)

Init ==
    /\ users = UsersFixture
    /\ weeks = WeeksFixture
    /\ tasks = << >>
    /\ plans = PlansFixture
    /\ templates = << >>
    /\ sections = << >>
    /\ template_tasks = << >>
    /\ response = Idle
    /\ call = NoCall

\* a handler answers one request
Answer(handler, request, args, outcome) ==
    /\ response' = [handler |-> handler, request |-> request, args |-> args,
                    status |-> outcome.status, body |-> outcome.body]
    /\ tasks' = outcome.tasks
    /\ UNCHANGED <<users, weeks, plan_tables, call>>

Weeks ==
    /\ response = Idle
    /\ \E request \in Requests :
            Answer("weeks", request, << >>, weeks_page(request))

WeekDetail ==
    /\ response = Idle
    /\ \E request \in Requests, week_id \in WeekIdInputs :
            Answer("week_detail", request, [week_id |-> week_id],
                   week_detail(request, week_id))

\* the forms drawn
AddTaskForms ==
    {[goal |-> <<" ", "g">>, topic |-> << >>, notes |-> << >>,
      due_date |-> <<"2", "0", "2", "5", "-", "0", "1", "-", "0", "6">>]}

NotesForms == {[notes |-> <<" ", "n", " ">>]}

DueDateForms ==
    {[clear |-> <<"1">>, due_date |-> << >>, due_date_text |-> << >>],
     [clear |-> << >>, due_date |-> << >>,
      due_date_text |-> <<"1", "/", "7", "/", "2", "5">>],
     [clear |-> << >>, due_date |-> << >>,
      due_date_text |-> <<"s", "o", "o", "n">>]}

StatusForms ==
    {[status |-> COMPLETE], [status |-> <<"c", "o", "m", "p", "l", "e", "t", "e">>]}

AddTask ==
    /\ response = Idle
    /\ Len(tasks) < MaxTasks
    /\ \E request \in Requests, week_id \in WeekIdInputs, form \in AddTaskForms :
               Answer("add_task", request, [week_id |-> week_id, form |-> form],
                      add_task(request, week_id, form))

TaskFragments ==
    {"edit_notes_form", "cancel_notes_edit", "edit_date_form", "date_display",
     "edit_status_form", "view_status"}

\* Flask's dispatch to the GET handlers of a task fragment
DispatchFragment(handler, request, task_id) ==
    CASE handler = "edit_notes_form" -> edit_notes_form(request, task_id)
      [] handler = "cancel_notes_edit" -> cancel_notes_edit(request, task_id)
      [] handler = "edit_date_form" -> edit_date_form(request, task_id)
      [] handler = "date_display" -> date_display(request, task_id)
      [] handler = "edit_status_form" -> edit_status_form(request, task_id)
      [] handler = "view_status" -> view_status(request, task_id)

TaskFragment ==
    /\ response = Idle
    /\ \E handler \in TaskFragments, request \in Requests,
           task_id \in TaskIdInputs :
            Answer(handler, request, [task_id |-> task_id],
                   DispatchFragment(handler, request, task_id))

CancelStatusEdit ==
    /\ response = Idle
    /\ \E request \in Requests, task_id \in TaskIdInputs :
            Answer("cancel_status_edit", request, [task_id |-> task_id],
                   cancel_status_edit(request, task_id))

UpdateNotes ==
    /\ response = Idle
    /\ \E request \in Requests, task_id \in TaskIdInputs, form \in NotesForms,
           hx \in BOOLEAN :
            Answer("update_notes", request,
                   [task_id |-> task_id, form |-> form, hx |-> hx],
                   update_notes(request, task_id, form, hx))

UpdateDueDate ==
    /\ response = Idle
    /\ \E request \in Requests, task_id \in TaskIdInputs, form \in DueDateForms,
           hx \in BOOLEAN :
            Answer("update_due_date", request,
                   [task_id |-> task_id, form |-> form, hx |-> hx],
                   update_due_date(request, task_id, form, hx))

UpdateStatus ==
    /\ response = Idle
    /\ \E request \in Requests, task_id \in TaskIdInputs, form \in StatusForms,
           hx \in BOOLEAN :
            Answer("update_status", request,
                   [task_id |-> task_id, form |-> form, hx |-> hx],
                   update_status(request, task_id, form, hx))

\* the response is sent and the request context is dropped
Teardown ==
    /\ response # Idle
    /\ response' = Idle
    /\ UNCHANGED <<users, weeks, tasks, plan_tables, call>>

Next ==
    \/ Weeks
    \/ WeekDetail
    \/ AddTask
    \/ TaskFragment
    \/ CancelStatusEdit
    \/ UpdateNotes
    \/ UpdateDueDate
    \/ UpdateStatus
    \/ Teardown

Spec == Init /\ [][Next]_vars

-----------------------------------------------------------------------------
(* Claims on the request handlers, checked under Spec *)

\* the request carries a principal header
HasPrincipalHeader(request) == request.role # None \/ request.id # None

\* C8: GET /weeks/<week_id> with X-User-Role / X-User-Id answers 200 with the
\* week when the header principal satisfies can_access_week for that week, and
\* 403 when it does not.
C8_WeekDetailFollowsPolicy ==
    (/\ response.handler = "week_detail"
     /\ HasPrincipalHeader(response.request)
     /\ response.args.week_id \in DOMAIN weeks)
        => LET principal == get_current_principal(response.request)
               week == weeks[response.args.week_id]
           IN IF can_access_week(principal, week)
              THEN /\ response.status = 200
                   /\ response.body.context.w = week
              ELSE response.status = 403

\* C9: GET /weeks with X-User-Role / X-User-Id lists exactly the Weeks the
\* header principal may access.
C9_WeeksListFollowsPolicy ==
    (/\ response.handler = "weeks"
     /\ HasPrincipalHeader(response.request))
        => LET principal == get_current_principal(response.request)
               listed == {response.body.context.weeks[i] :
                             i \in DOMAIN response.body.context.weeks}
           IN /\ response.status = 200
              /\ listed = {w \in WeekQuery : can_access_week(principal, w)}

\* the week- and task-scoped handlers
WeekScoped == {"week_detail", "add_task"}
TaskScoped ==
    TaskFragments \cup
        {"cancel_status_edit", "update_notes", "update_due_date",
         "update_status"}

\* C10: a week- or task-scoped handler answers 403 and changes no stored data
\* whenever the caller's principal does not satisfy can_access_week for the
\* week concerned. Stated for the requests of a known user for a week or task
\* of the user's own plan, which no handler answers as not found.
C10_DeniedWithoutAccess ==
    [][(/\ response'.handler \in WeekScoped \cup TaskScoped
        /\ current_user(response'.request) # None
        /\ IF response'.handler \in WeekScoped
           THEN response'.args.week_id \in DOMAIN weeks
           ELSE response'.args.task_id \in DOMAIN tasks)
          => LET user == current_user(response'.request)[1]
                 principal == resolve_principal(response'.request, user)
                 week == IF response'.handler \in WeekScoped
                         THEN weeks[response'.args.week_id]
                         ELSE WeekOf(tasks[response'.args.task_id])
             IN (/\ week.onboarding_plan_id = user.onboarding_plan_id
                 /\ ~can_access_week(principal, week))
                    => /\ response'.status = 403
                       /\ UNCHANGED <<users, weeks, tasks>>]_vars

\* the inline updates of a task
InlineUpdates == {"update_notes", "update_due_date", "update_status"}

\* the task carries what the form of the update asked for
Stored(handler, form, task) ==
    CASE handler = "update_notes" -> task.notes = strip(form.notes)
      [] handler = "update_status" -> task.status = strip(form.status)
      [] handler = "update_due_date" ->
            IF form.clear = <<"1">> THEN task.due_date = None
            ELSE task.due_date =
                     _parse_due_date(IF form.due_date # << >>
                                     THEN form.due_date
                                     ELSE form.due_date_text)

\* the form is one the handler accepts
Accepted(handler, form) ==
    CASE handler = "update_notes" -> TRUE
      [] handler = "update_status" -> strip(form.status) \in StatusEnum
      [] handler = "update_due_date" ->
            \/ form.clear = <<"1">>
            \/ _parse_due_date(IF form.due_date # << >> THEN form.due_date
                               ELSE form.due_date_text) # None

\* C11: an inline update of a task's notes, due date or status succeeds and
\* is stored when the week's owner, the manager recorded in the week's
\* manager_user_id or an admin asks for it, whatever plan the manager or admin
\* is assigned to.
C11_UpdatesSucceedForOwnerManagerAdmin ==
    (/\ response.handler \in InlineUpdates
     /\ current_user(response.request) # None
     /\ response.args.task_id \in DOMAIN tasks
     /\ Accepted(response.handler, response.args.form))
        => LET user == current_user(response.request)[1]
               principal == resolve_principal(response.request, user)
               task == tasks[response.args.task_id]
               week == WeekOf(task)
           IN (/\ principal.user_id # None
               /\ \/ normalized_role(principal) = s_admin
                  \/ /\ normalized_role(principal) = s_manager
                     /\ week.manager_user_id = principal.user_id
                  \/ week.owner_user_id = principal.user_id
               /\ can_access_week(principal, week))
                  => /\ response.status \in {200, 302}
                     /\ Stored(response.handler, response.args.form, task)

\* C12: a week- or task-scoped request that names a Week or Task id that does
\* not exist, or one whose week's onboarding_plan_id differs from the acting
\* user's onboarding_plan_id, is answered 404 and changes no stored data.
C12_OutOfScopeIs404 ==
    [][(/\ response'.handler \in WeekScoped \cup TaskScoped
        /\ current_user(response'.request) # None)
          => LET user == current_user(response'.request)[1]
                 missing == IF response'.handler \in WeekScoped
                            THEN response'.args.week_id \notin DOMAIN weeks
                            ELSE response'.args.task_id \notin DOMAIN tasks
                 week == IF response'.handler \in WeekScoped
                         THEN weeks[response'.args.week_id]
                         ELSE WeekOf(tasks[response'.args.task_id])
             IN (\/ missing
                 \/ week.onboarding_plan_id # user.onboarding_plan_id)
                    => /\ response'.status = 404
                       /\ UNCHANGED <<users, weeks, tasks>>]_vars

\* an update of a task of another plan's week was answered 404
C12_Witness ==
    /\ response.handler = "update_status"
    /\ response.status = 404
    /\ response.args.task_id \in DOMAIN tasks
    /\ current_user(response.request) # None
    /\ WeekOf(tasks[response.args.task_id]).onboarding_plan_id
           # current_user(response.request)[1].onboarding_plan_id
    /\ can_access_week(resolve_principal(response.request,
                                         current_user(response.request)[1]),
                       WeekOf(tasks[response.args.task_id]))

-----------------------------------------------------------------------------
(* Onboarding/models.py: plans and the template layer *)

\* TemplateStatusEnum values
DRAFT == "draft"
PUBLISHED == "published"
RETIRED == "retired"

\* DueTypeEnum values
DAYS_FROM_START ==
    <<"d", "a", "y", "s", "_", "f", "r", "o", "m", "_", "s", "t", "a", "r", "t">>
DAY_WITHIN_SECTION ==
    <<"d", "a", "y", "_", "w", "i", "t", "h", "i", "n", "_",
      "s", "e", "c", "t", "i", "o", "n">>
DueTypeEnum == {DAYS_FROM_START, DAY_WITHIN_SECTION}

PlanQuery == {plans[i] : i \in DOMAIN plans}
TemplateQuery == {templates[i] : i \in DOMAIN templates}
SectionQuery == {sections[i] : i \in DOMAIN sections}
TemplateTaskQuery == {template_tasks[i] : i \in DOMAIN template_tasks}

\* Query.get(id) / filter_by(id=...).first(): the row, None for no row
GetById(rows, id) == FirstById({r \in rows : r.id = id})

\* tpl.sections, section.tasks
SectionsOf(tpl) == {s \in SectionQuery : s.template_id = tpl.id}
TasksOf(section) == {t \in TemplateTaskQuery : t.section_id = section.id}

\* variant: an unset offset counts as a week
OrSeven(x) == IF x = None THEN 7 ELSE x[1]

\* `x or 0` on an optional integer
OrZero(x) == IF x = None THEN 0 ELSE x[1]

-----------------------------------------------------------------------------
(* app.py: create_plan_from_template *)

\* variant: rows in id order
KeyBefore_by_id(a, b) == a.id < b.id

\* sorted(rows, key=lambda r: (r.order_index or 0, r.id)), for the sections
\* of a template and for the tasks of a section; order_index is a NOT NULL
\* column, on which `or 0` changes nothing
KeyBefore(a, b) ==
    \/ a.order_index < b.order_index
    \/ a.order_index = b.order_index /\ a.id < b.id

RECURSIVE SortByOrderIndex(_)
SortByOrderIndex(rows) ==
    IF rows = {} THEN << >>
    ELSE LET first == CHOOSE r \in rows :
                          \A q \in rows \ {r} : KeyBefore(r, q)
         IN <<first>> \o SortByOrderIndex(rows \ {first})

\* variant: a set offset_days decides whatever the due type
TaskDueDate_offset_first(tmpl_task, start_date, week_start) ==
    IF tmpl_task.offset_days # None
    THEN Some(start_date + tmpl_task.offset_days[1])
    ELSE IF tmpl_task.section_day # None
         THEN Some(week_start + (tmpl_task.section_day[1] - 1))
         ELSE None

\* the due date of a materialized task
TaskDueDate(tmpl_task, start_date, week_start) ==
    IF tmpl_task.due_type = DAYS_FROM_START /\ tmpl_task.offset_days # None
    THEN Some(start_date + tmpl_task.offset_days[1])
    ELSE IF /\ tmpl_task.due_type = DAY_WITHIN_SECTION
            /\ tmpl_task.section_day # None
         THEN Some(week_start + (tmpl_task.section_day[1] - 1))
         ELSE None

\* the inner loop: the tasks of one week, added to the table in order.
\* notes is passed the description; a None there takes the column default ""
RECURSIVE MaterializeTasks(_, _, _, _, _, _)
MaterializeTasks(section_tasks, sort_idx, week_id, start_date, week_start, table) ==
    IF sort_idx > Len(section_tasks) THEN table
    ELSE LET tmpl_task == section_tasks[sort_idx]
             task == [id |-> Len(table) + 1, week_id |-> week_id,
                      title |-> Some(tmpl_task.title),
                      goal |-> Some(tmpl_task.title),
                      topic |-> tmpl_task.description,
                      notes |-> IF tmpl_task.description = None THEN << >>
                                ELSE tmpl_task.description[1],
                      sort_order |-> Some(sort_idx),
                      status |-> NOT_STARTED,
                      due_date |-> TaskDueDate(tmpl_task, start_date,
                                               week_start)]
         IN MaterializeTasks(section_tasks, sort_idx + 1, week_id, start_date,
                             week_start, Append(table, task))

\* the outer loop: one week per section, in order; acc holds the weeks and
\* tasks tables and all_weeks so far
RECURSIVE MaterializeSections(_, _, _, _, _)
MaterializeSections(ordered, plan_id, employee, start_date, acc) ==
    IF ordered = << >> THEN acc
    ELSE LET section == Head(ordered)
             offset_days == OrZero(section.offset_days)
             week_start == start_date + offset_days
             week_end == week_start + 6
             week == Week(Len(acc.weeks) + 1, Some(plan_id), section.title,
                          Some(week_start), Some(week_end),
                          Some(employee.id), employee.manager_id)
             section_tasks == SortByOrderIndex(TasksOf(section))
         IN MaterializeSections(
                Tail(ordered), plan_id, employee, start_date,
                [weeks |-> Append(acc.weeks, week),
                 tasks |-> MaterializeTasks(section_tasks, 1, week.id,
                                            start_date, week_start, acc.tasks),
                 all_weeks |-> Append(acc.all_weeks, week)])

\* variant: the new plan takes the id of the last plan
create_plan_from_template_reused_id(template_id, employee, start_date) ==
    LET found == GetById(TemplateQuery, template_id) IN
    IF found = None THEN None
    ELSE LET tpl == found[1]
             plan == [id |-> Len(plans), name |-> tpl.name,
                      description |-> tpl.description]
             ordered == SortByOrderIndex(SectionsOf(tpl))
             built == MaterializeSections(
                          ordered, plan.id, employee, start_date,
                          [weeks |-> weeks, tasks |-> tasks,
                           all_weeks |-> << >>])
         IN Some([plans |-> Append(plans, plan),
                  users |-> [users EXCEPT
                                ![employee.id].onboarding_plan_id =
                                    Some(plan.id)],
                  weeks |-> built.weeks,
                  tasks |-> built.tasks,
                  plan |-> plan,
                  all_weeks |-> built.all_weeks])

\* create_plan_from_template(template_id, employee, start_date): the tables
\* after the commit with the returned plan and all_weeks; None for the 404 of
\* first_or_404
create_plan_from_template(template_id, employee, start_date) ==
    LET found == GetById(TemplateQuery, template_id) IN
    IF found = None THEN None
    ELSE LET tpl == found[1]
             plan == [id |-> Len(plans) + 1, name |-> tpl.name,
                      description |-> tpl.description]
             ordered == SortByOrderIndex(SectionsOf(tpl))
             built == MaterializeSections(
                          ordered, plan.id, employee, start_date,
                          [weeks |-> weeks, tasks |-> tasks,
                           all_weeks |-> << >>])
         IN Some([plans |-> Append(plans, plan),
                  users |-> [users EXCEPT
                                ![employee.id].onboarding_plan_id =
                                    Some(plan.id)],
                  weeks |-> built.weeks,
                  tasks |-> built.tasks,
                  plan |-> plan,
                  all_weeks |-> built.all_weeks])

-----------------------------------------------------------------------------
(* app.py: assign a plan *)

\* date.today() of the run, 2025-02-03
Today == 739285

\* int(s) of a form field: blanks around the digits are skipped; None for
\* ValueError. (int() also takes a sign and underscores; the fields drawn
\* hold none.)
int(s) ==
    IF IsDigits(strip(s)) THEN Some(DecimalValue(strip(s))) ELSE None

\* the tables as they stand
Db ==
    [users |-> users, plans |-> plans, weeks |-> weeks, tasks |-> tasks,
     templates |-> templates, sections |-> sections,
     template_tasks |-> template_tasks]

\* what a handler of the plan and template routes does: a response, the
\* tables it leaves, and for assign_plan what the materializer returned
Respond(status, body, db) ==
    [status |-> status, body |-> body, db |-> db, returned |-> None]

\* require_manager_or_admin(user): TRUE when the role is let in
require_manager_or_admin(user) == user.role \in {s_manager, s_admin, s_builder}

\* sorted(weeks, key=lambda w: (w.start_date or date.max, w.id))[0]
first_week_of(all_weeks) ==
    LET rows == {all_weeks[i] : i \in DOMAIN all_weeks} IN
    CHOOSE w \in rows :
        \A q \in rows \ {w} :
            \/ w.start_date # None /\ q.start_date = None
            \/ /\ w.start_date # None /\ q.start_date # None
               /\ w.start_date[1] < q.start_date[1]
            \/ w.start_date = q.start_date /\ w.id < q.id

\* variant: every template not retired may be assigned
assignable_unless_retired(tpl) == tpl.status # RETIRED

\* only a published template may be assigned
assignable(tpl) == tpl.status = PUBLISHED

\* POST /assign
assign_plan(request, form) ==
    LET user == current_user(request) IN
    IF user = None THEN Respond(404, [aborted |-> TRUE], Db)
    ELSE IF ~require_manager_or_admin(user[1])
         THEN Respond(403, [aborted |-> TRUE], Db)
    ELSE LET template_id == int(form.template_id)
             employee_id == int(form.user_id)
             start_raw == strip(form.start_date)
         IN
         IF template_id = None \/ employee_id = None
         THEN Respond(302, [redirect |-> "assign_plan_form"], Db)
         ELSE LET tpl == GetById(TemplateQuery, template_id[1]) IN
         IF tpl = None THEN Respond(404, [aborted |-> TRUE], Db)
         ELSE IF ~assignable(tpl[1])
              THEN Respond(400, [aborted |-> TRUE], Db)
         ELSE LET employee == GetById(UserQuery, employee_id[1]) IN
         IF employee = None THEN Respond(404, [aborted |-> TRUE], Db)
         ELSE LET parsed == IF start_raw # << >>
                            THEN strptime_date(start_raw, "%Y-%m-%d")
                            ELSE None
                  start_date == IF parsed = None THEN Today ELSE parsed[1]
                  created == create_plan_from_template(tpl[1].id, employee[1],
                                                       start_date)[1]
                  db == [Db EXCEPT !.plans = created.plans,
                                   !.users = created.users,
                                   !.weeks = created.weeks,
                                   !.tasks = created.tasks]
                  returned == Some([plan |-> created.plan,
                                    all_weeks |-> created.all_weeks,
                                    employee |-> employee[1],
                                    start_date |-> start_date,
                                    template |-> tpl[1]])
              IN
              IF created.all_weeks # << >>
              THEN [status |-> 302,
                    body |-> [redirect |-> "week_detail",
                              values |->
                                  [week_id |->
                                       first_week_of(created.all_weeks).id,
                                   as_user |-> employee[1].email]],
                    db |-> db, returned |-> returned]
              \* url_for("home") names no endpoint: BuildError, after the commit
              ELSE [status |-> 500, body |-> [aborted |-> TRUE],
                    db |-> db, returned |-> returned]

-----------------------------------------------------------------------------
(* MaterializeSpec: create_plan_from_template applied to drawn templates *)

MaxOrderIndex == 1

\* a published, a draft and a retired template
TemplatesFixture ==
    << [id |-> 1, name |-> <<"E", "n", "g">>, description |-> Some(<<"9", "0">>),
        status |-> PUBLISHED, created_by_id |-> Some(3)],
       [id |-> 2, name |-> <<"O", "p", "s">>, description |-> None,
        status |-> DRAFT, created_by_id |-> Some(3)],
       [id |-> 3, name |-> <<"O", "l", "d">>, description |-> None,
        status |-> RETIRED, created_by_id |-> None] >>

\* a TemplateSection row
Section(id, template_id, title, order_index, offset_days) ==
    [id |-> id, template_id |-> template_id, title |-> title,
     description |-> None, order_index |-> order_index,
     offset_days |-> offset_days]

\* a TemplateTask row
TemplateTask(id, section_id, title, description, due_type, offset_days, section_day, order_index) ==
    [id |-> id, section_id |-> section_id, title |-> title,
     description |-> description,
     responsible_party |-> <<"n", "e", "w", "_", "h", "i", "r", "e">>,
     due_type |-> due_type, offset_days |-> offset_days,
     section_day |-> section_day, category |-> None, is_required |-> FALSE,
     order_index |-> order_index]

OrderIndexes == 0..MaxOrderIndex
SectionOffsets == {None, Some(0), Some(7)}

\* two sections of template 1 in every order and offset drawn
SectionStores ==
    { << Section(1, 1, <<"S", "1">>, o[1], f[1]),
         Section(2, 1, <<"S", "2">>, o[2], f[2]) >> :
        o \in OrderIndexes \X OrderIndexes,
        f \in SectionOffsets \X SectionOffsets }

\* the due rule of a template task: type, offset_days, section_day
DueRules == DueTypeEnum \X {None, Some(3)} \X {None, Some(2)}

\* two tasks in section 1, the first with every due rule, in every order
\* drawn, and one task in section 2
TemplateTaskStores ==
    { << TemplateTask(1, 1, <<"a">>, None, d[1], d[2], d[3], o[1]),
         TemplateTask(2, 1, <<"b">>, Some(<<"d">>), DAYS_FROM_START, Some(3),
                      None, o[2]),
         TemplateTask(3, 2, <<"c">>, None, DAY_WITHIN_SECTION, None, Some(1),
                      1) >> :
        d \in DueRules, o \in OrderIndexes \X OrderIndexes }

\* plan start dates: 2025-01-06 and today
StartDates == {739257, Today}

MaterializeInit ==
    /\ users = UsersFixture
    /\ plans = PlansFixture
    /\ weeks = WeeksFixture
    /\ tasks = << >>
    /\ templates = TemplatesFixture
    /\ sections \in SectionStores
    /\ template_tasks \in TemplateTaskStores
    /\ response = Idle
    /\ call = NoCall

\* create_plan_from_template(template_id, employee, start_date) is called
CallCreatePlan ==
    /\ call = NoCall
    /\ \E template_id \in 1..(Len(templates) + 1), employee \in UserQuery,
          start_date \in StartDates :
          LET created == create_plan_from_template(template_id, employee,
                                                   start_date)
              args == [template_id |-> template_id, employee |-> employee,
                       start_date |-> start_date]
          IN IF created = None
             THEN /\ call' = [fn |-> "create_plan_from_template",
                              args |-> args, result |-> None]
                  /\ UNCHANGED <<users, plans, weeks, tasks>>
             ELSE /\ call' = [fn |-> "create_plan_from_template",
                              args |-> args,
                              result |-> Some([plan |-> created[1].plan,
                                               all_weeks |->
                                                   created[1].all_weeks])]
                  /\ users' = created[1].users
                  /\ plans' = created[1].plans
                  /\ weeks' = created[1].weeks
                  /\ tasks' = created[1].tasks
    /\ UNCHANGED <<templates, sections, template_tasks, response>>

MaterializeNext == CallCreatePlan

MaterializeSpec == MaterializeInit /\ [][MaterializeNext]_vars

-----------------------------------------------------------------------------
(* Claims on materialization, checked under MaterializeSpec *)

\* a plan was materialized by the call
Materialized == call.fn = "create_plan_from_template" /\ call.result # None

\* the weeks of the plan the call created, and the tasks of a week
CreatedWeeks ==
    {w \in WeekQuery : w.onboarding_plan_id = Some(call.result[1].plan.id)}
TasksIn(week) == {t \in TaskQuery : t.week_id = week.id}

\* the sections of the template the call named
CalledSections == {s \in SectionQuery : s.template_id = call.args.template_id}

\* the section a created week was made from and the template task a created
\* task was made from (titles are distinct in the templates drawn)
SectionOfWeek(week) == CHOOSE s \in CalledSections : s.title = week.title
TemplateTaskOf(task) ==
    CHOOSE tt \in TasksOf(SectionOfWeek(WeekOf(task))) :
        Some(tt.title) = task.title

\* C14: for every Section of the materialized Template the created Week starts
\* at start_date + section.offset_days (0 when unset) and ends 6 days after
\* its start.
C14_WeekDates ==
    Materialized =>
        /\ Cardinality(CreatedWeeks) = Cardinality(CalledSections)
        /\ \A s \in CalledSections :
              \E w \in CreatedWeeks :
                  /\ w.title = s.title
                  /\ w.start_date =
                         Some(call.args.start_date
                                + (IF s.offset_days = None THEN 0
                                   ELSE s.offset_days[1]))
                  /\ w.end_date = Some(w.start_date[1] + 6)

\* offsets 0 and 7 from 2025-01-06 gave 2025-01-06..2025-01-12 and
\* 2025-01-13..2025-01-19
C14_Witness ==
    /\ Materialized
    /\ call.args.start_date = 739257
    /\ \E w1, w2 \in CreatedWeeks :
          /\ SectionOfWeek(w1).offset_days = Some(0)
          /\ w1.start_date = Some(739257) /\ w1.end_date = Some(739263)
          /\ SectionOfWeek(w2).offset_days = Some(7)
          /\ w2.start_date = Some(739264) /\ w2.end_date = Some(739270)

\* C15: a materialized Task is due start_date + offset_days when due_type is
\* days_from_start and offset_days is set, the week's start + (section_day - 1)
\* when due_type is day_within_section and section_day is set, and has no due
\* date in every other case.
C15_TaskDueDates ==
    Materialized =>
        \A w \in CreatedWeeks :
            \A t \in TasksIn(w) :
                LET tt == TemplateTaskOf(t) IN
                t.due_date =
                    IF tt.due_type = DAYS_FROM_START /\ tt.offset_days # None
                    THEN Some(call.args.start_date + tt.offset_days[1])
                    ELSE IF /\ tt.due_type = DAY_WITHIN_SECTION
                            /\ tt.section_day # None
                         THEN Some(w.start_date[1] + tt.section_day[1] - 1)
                         ELSE None

\* a task whose template sets offset_days under day_within_section without a
\* section_day got no due date, next to one due 3 days from the start
C15_Witness ==
    /\ Materialized
    /\ \E w \in CreatedWeeks :
          \E t, u \in TasksIn(w) :
              /\ TemplateTaskOf(t).due_type = DAY_WITHIN_SECTION
              /\ TemplateTaskOf(t).offset_days = Some(3)
              /\ TemplateTaskOf(t).section_day = None
              /\ t.due_date = None
              /\ TemplateTaskOf(u).due_type = DAYS_FROM_START
              /\ u.due_date = Some(call.args.start_date + 3)

\* C16: Weeks are created and returned in the order of the Sections by
\* (order_index, id) ascending, and in each Week the Tasks get sort_order
\* 1..n following the TemplateTasks by (order_index, id) ascending.
C16_OrderPreserved ==
    Materialized =>
        LET all_weeks == call.result[1].all_weeks IN
        /\ {all_weeks[i] : i \in DOMAIN all_weeks} = CreatedWeeks
        /\ \A i, j \in DOMAIN all_weeks :
              i < j =>
                LET a == SectionOfWeek(all_weeks[i])
                    b == SectionOfWeek(all_weeks[j])
                IN /\ all_weeks[i].id < all_weeks[j].id
                   /\ \/ a.order_index < b.order_index
                      \/ a.order_index = b.order_index /\ a.id < b.id
        /\ \A w \in CreatedWeeks :
              /\ {t.sort_order : t \in TasksIn(w)}
                     = {Some(n) : n \in 1..Cardinality(TasksIn(w))}
              /\ \A t, u \in TasksIn(w) :
                    t.sort_order[1] < u.sort_order[1] =>
                        LET a == TemplateTaskOf(t)
                            b == TemplateTaskOf(u)
                        IN /\ t.id < u.id
                           /\ \/ a.order_index < b.order_index
                              \/ a.order_index = b.order_index /\ a.id < b.id

\* the section and the template task with the larger id came first
C16_Witness ==
    /\ Materialized
    /\ Len(call.result[1].all_weeks) = 2
    /\ SectionOfWeek(call.result[1].all_weeks[1]).id = 2
    /\ \E t, u \in TaskQuery :
          /\ t.week_id = u.week_id
          /\ t.sort_order = Some(1) /\ u.sort_order = Some(2)
          /\ TemplateTaskOf(t).id > TemplateTaskOf(u).id

-----------------------------------------------------------------------------
(* app.py: template editing *)

s_new_hire == <<"n", "e", "w", "_", "h", "i", "r", "e">>
s_other == <<"o", "t", "h", "e", "r">>

\* require_builder_or_admin(user): TRUE when the role is let in
require_builder_or_admin(user) == user.role \in {s_builder, s_admin}

\* `value or default` on a form field, absent or empty being << >>
OrDefault(value, default) == IF value = << >> THEN default ELSE value

\* `int(raw) if raw else None`, None also for ValueError
OptionalInt(raw) == IF raw = << >> THEN None ELSE int(raw)

\* `text if text else None`
OrNone(text) == IF text = << >> THEN None ELSE Some(text)

\* max(r.order_index or 0 for r in rows) + 1, 1 for no rows
NextOrderIndex(rows) ==
    IF rows = {} THEN 1
    ELSE (CHOOSE n \in {r.order_index : r \in rows} :
              \A r \in rows : r.order_index <= n) + 1

\* POST /templates/<template_id>/sections
add_template_section(request, template_id, form) ==
    LET user == current_user(request) IN
    IF user = None THEN Respond(404, [aborted |-> TRUE], Db)
    ELSE IF ~require_builder_or_admin(user[1])
         THEN Respond(403, [aborted |-> TRUE], Db)
    ELSE LET tpl == GetById(TemplateQuery, template_id) IN
         IF tpl = None THEN Respond(404, [aborted |-> TRUE], Db)
         ELSE LET title == strip(form.title)
                  description == strip(form.description)
                  offset_raw == strip(form.offset_days)
                  back == [redirect |-> "edit_template",
                           values |-> [template_id |-> template_id]]
              IN
              IF title = << >> THEN Respond(302, back, Db)
              ELSE LET section ==
                           [id |-> Len(sections) + 1, template_id |-> tpl[1].id,
                            title |-> title,
                            description |-> OrNone(description),
                            order_index |-> NextOrderIndex(SectionsOf(tpl[1])),
                            offset_days |-> OptionalInt(offset_raw)]
                   IN Respond(302, back,
                              [Db EXCEPT !.sections = Append(sections, section)])

\* the fields of a template task that add_template_task and
\* update_template_task read from the form
responsible_party_of(form) ==
    LET raw == strip(OrDefault(form.responsible_party, s_new_hire)) IN
    IF raw \notin {s_new_hire, s_manager, s_other} THEN s_new_hire ELSE raw

due_type_of(form) ==
    LET raw == strip(OrDefault(form.due_type, DAYS_FROM_START)) IN
    IF raw \notin DueTypeEnum THEN DAYS_FROM_START ELSE raw

offset_days_of(form) ==
    IF due_type_of(form) = DAYS_FROM_START
    THEN OptionalInt(strip(form.offset_days))
    ELSE None

section_day_of(form) ==
    IF due_type_of(form) = DAY_WITHIN_SECTION
    THEN OptionalInt(strip(form.section_day))
    ELSE None

\* TemplateSection.query.filter_by(id=section_id, template_id=template_id)
SectionOfTemplate(section_id, template_id) ==
    FirstById({sec \in SectionQuery :
                  sec.id = section_id /\ sec.template_id = template_id})

\* POST /templates/<template_id>/sections/<section_id>/tasks
add_template_task(request, template_id, section_id, form) ==
    LET user == current_user(request) IN
    IF user = None THEN Respond(404, [aborted |-> TRUE], Db)
    ELSE IF ~require_builder_or_admin(user[1])
         THEN Respond(403, [aborted |-> TRUE], Db)
    ELSE LET section == SectionOfTemplate(section_id, template_id) IN
         IF section = None THEN Respond(404, [aborted |-> TRUE], Db)
         ELSE LET title == strip(form.title)
                  back == [redirect |-> "edit_template",
                           values |-> [template_id |-> template_id]]
              IN
              IF title = << >> THEN Respond(302, back, Db)
              ELSE LET t == [id |-> Len(template_tasks) + 1,
                             section_id |-> section[1].id,
                             title |-> title,
                             description |-> OrNone(strip(form.description)),
                             responsible_party |-> responsible_party_of(form),
                             due_type |-> due_type_of(form),
                             offset_days |-> offset_days_of(form),
                             section_day |-> section_day_of(form),
                             category |-> OrNone(strip(form.category)),
                             is_required |-> form.is_required # << >>,
                             order_index |->
                                 NextOrderIndex(TasksOf(section[1]))]
                   IN Respond(302, back,
                              [Db EXCEPT !.template_tasks =
                                             Append(template_tasks, t)])

\* POST /templates/<template_id>/sections/<section_id>/tasks/<task_id>
update_template_task(request, template_id, section_id, task_id, form) ==
    LET user == current_user(request) IN
    IF user = None THEN Respond(404, [aborted |-> TRUE], Db)
    ELSE IF ~require_builder_or_admin(user[1])
         THEN Respond(403, [aborted |-> TRUE], Db)
    ELSE LET section == SectionOfTemplate(section_id, template_id) IN
         IF section = None THEN Respond(404, [aborted |-> TRUE], Db)
         ELSE LET task == FirstById({t \in TemplateTaskQuery :
                                        /\ t.id = task_id
                                        /\ t.section_id = section[1].id})
              IN
              IF task = None THEN Respond(404, [aborted |-> TRUE], Db)
              ELSE IF strip(form.title) = << >>
                   THEN Respond(302,
                                [redirect |-> "edit_template_task",
                                 values |-> [template_id |-> template_id,
                                             section_id |-> section_id,
                                             task_id |-> task_id]], Db)
              ELSE LET updated ==
                           [task[1] EXCEPT
                               !.title = strip(form.title),
                               !.description = OrNone(strip(form.description)),
                               !.responsible_party = responsible_party_of(form),
                               !.due_type = due_type_of(form),
                               !.offset_days = offset_days_of(form),
                               !.section_day = section_day_of(form),
                               !.category = OrNone(strip(form.category)),
                               !.is_required = form.is_required # << >>]
                   IN Respond(302,
                              [redirect |-> "edit_template",
                               values |-> [template_id |-> template_id]],
                              [Db EXCEPT !.template_tasks[task_id] = updated])

\* publish_template and retire_template: the status is set unless the
\* template is retired
set_template_status(request, template_id, status) ==
    LET user == current_user(request) IN
    IF user = None THEN Respond(404, [aborted |-> TRUE], Db)
    ELSE IF ~require_builder_or_admin(user[1])
         THEN Respond(403, [aborted |-> TRUE], Db)
    ELSE LET tpl == GetById(TemplateQuery, template_id) IN
         IF tpl = None THEN Respond(404, [aborted |-> TRUE], Db)
         ELSE Respond(302, [redirect |-> "templates_dashboard"],
                      IF tpl[1].status # RETIRED
                      THEN [Db EXCEPT !.templates[template_id].status = status]
                      ELSE Db)

\* variant: publishing does not look at the present status
publish_template_whatever_status(request, template_id) ==
    LET outcome == set_template_status(request, template_id, PUBLISHED) IN
    IF outcome.status = 302
    THEN [outcome EXCEPT !.db.templates[template_id].status = PUBLISHED]
    ELSE outcome

\* POST /templates/<template_id>/publish
publish_template(request, template_id) ==
    set_template_status(request, template_id, PUBLISHED)

\* variant: retiring also drops the tasks table
retire_template_dropping_tasks(request, template_id) ==
    [set_template_status(request, template_id, RETIRED) EXCEPT
        !.db.tasks = << >>]

\* POST /templates/<template_id>/retire
retire_template(request, template_id) ==
    set_template_status(request, template_id, RETIRED)

-----------------------------------------------------------------------------
(* AssignSpec: plans assigned from templates that are published and retired *)

MaxPlans == 4

\* the sections and tasks of the published template 1, and of the retired
\* template 3
SectionsFixture ==
    << Section(1, 1, <<"S", "1">>, 1, Some(0)),
       Section(2, 1, <<"S", "2">>, 2, Some(7)),
       Section(3, 3, <<"S", "3">>, 1, None) >>

TemplateTasksFixture ==
    << TemplateTask(1, 1, <<"a">>, None, DAYS_FROM_START, Some(3), None, 1),
       TemplateTask(2, 1, <<"b">>, Some(<<"d">>), DAY_WITHIN_SECTION, None,
                    Some(2), 2),
       TemplateTask(3, 2, <<"c">>, None, DAYS_FROM_START, None, None, 1),
       TemplateTask(4, 3, <<"e">>, None, DAYS_FROM_START, Some(1), None, 1) >>

AssignInit ==
    /\ users = UsersFixture
    /\ plans = PlansFixture
    /\ weeks = WeeksFixture
    /\ tasks = << >>
    /\ templates = TemplatesFixture
    /\ sections = SectionsFixture
    /\ template_tasks = TemplateTasksFixture
    /\ response = Idle
    /\ call = NoCall

\* a handler of the plan and template routes answers one request
Apply(handler, request, args, outcome) ==
    /\ response' = [handler |-> handler, request |-> request, args |-> args,
                    status |-> outcome.status, body |-> outcome.body,
                    returned |-> outcome.returned]
    /\ users' = outcome.db.users
    /\ plans' = outcome.db.plans
    /\ weeks' = outcome.db.weeks
    /\ tasks' = outcome.db.tasks
    /\ templates' = outcome.db.templates
    /\ sections' = outcome.db.sections
    /\ template_tasks' = outcome.db.template_tasks
    /\ UNCHANGED call

\* who asks: the manager, the report, the admin
StaffRequests ==
    [email : {Some("manager@test.com"), Some("user@test.com"),
              Some("admin@test.com")},
     role : {None}, id : {None}]

AssignForms ==
    [template_id : {<<"1">>, <<"2">>, <<"3">>, <<"x">>},
     user_id : {<<"1">>, <<"2">>, <<"9">>},
     start_date : {<<"2", "0", "2", "5", "-", "0", "1", "-", "0", "6">>, << >>}]

AssignPlan ==
    /\ response = Idle
    /\ Len(plans) < MaxPlans
    /\ \E request \in StaffRequests, form \in AssignForms :
          Apply("assign_plan", request, [form |-> form],
                assign_plan(request, form))

TemplateIdInputs == 1..(Len(templates) + 1)

PublishTemplate ==
    /\ response = Idle
    /\ \E request \in StaffRequests, template_id \in TemplateIdInputs :
          Apply("publish_template", request, [template_id |-> template_id],
                publish_template(request, template_id))

RetireTemplate ==
    /\ response = Idle
    /\ \E request \in StaffRequests, template_id \in TemplateIdInputs :
          Apply("retire_template", request, [template_id |-> template_id],
                retire_template(request, template_id))

\* users.manager_id of the report is changed in the table (no route of the
\* application writes it); weeks.manager_user_id is a plain column
ReassignManager ==
    /\ response = Idle
    /\ \E manager \in {Some(1), Some(3)} :
          /\ users[2].manager_id # manager
          /\ users' = [users EXCEPT ![2].manager_id = manager]
    /\ UNCHANGED <<weeks, tasks, plan_tables, response, call>>

AssignNext ==
    \/ AssignPlan
    \/ PublishTemplate
    \/ RetireTemplate
    \/ ReassignManager
    \/ Teardown

AssignSpec == AssignInit /\ [][AssignNext]_vars

-----------------------------------------------------------------------------
(* Claims on plan assignment, checked under AssignSpec *)

\* the template an assign_plan form names, None for none
FormTemplate(form) ==
    IF int(form.template_id) = None THEN None
    ELSE GetById(TemplateQuery, int(form.template_id)[1])

\* C13: assigning from a Template that is not published creates no Plan, Week
\* or Task and leaves every user's plan reference unchanged, and answers 400
\* to a caller who may assign; every Plan created by an assignment came from a
\* Template published at the time of the request.
C13_OnlyPublishedAssigned ==
    [][response'.handler = "assign_plan" =>
          LET form == response'.args.form
              tpl == FormTemplate(form)
              user == current_user(response'.request)
          IN /\ (tpl # None /\ tpl[1].status # PUBLISHED) =>
                    /\ UNCHANGED <<users, plans, weeks, tasks, plan_tables>>
                    /\ (/\ user # None
                        /\ require_manager_or_admin(user[1])
                        /\ int(form.user_id) # None)
                           => response'.status = 400
             /\ plans' # plans =>
                    /\ tpl # None
                    /\ tpl[1].status = PUBLISHED]_vars

\* template 1 was assigned while published, then retired, and a further
\* assignment from it was answered 400
C13_Witness ==
    /\ response.handler = "assign_plan"
    /\ response.status = 400
    /\ FormTemplate(response.args.form) # None
    /\ FormTemplate(response.args.form)[1].status = RETIRED
    /\ \E p \in PlanQuery :
          p.id > Len(PlansFixture)
            /\ p.name = FormTemplate(response.args.form)[1].name

\* C17: after a successful materialization for employee E, E's
\* onboarding_plan_id is the new Plan's id, the Plan copies the Template's
\* name and description, every created Week belongs to the new Plan with
\* owner_user_id = E.id and manager_user_id = E.manager_id as it was then; no
\* later step, a change of E.manager_id included, changes a Week already
\* created.
C17_PlanAndWeeksOfEmployee ==
    [][/\ (response'.handler = "assign_plan" /\ response'.returned # None) =>
            LET r == response'.returned[1]
                E == r.employee
            IN /\ r.plan.id \notin {p.id : p \in PlanQuery}
               /\ plans'[r.plan.id] = r.plan
               /\ users'[E.id].onboarding_plan_id = Some(r.plan.id)
               /\ r.plan.name = r.template.name
               /\ r.plan.description = r.template.description
               /\ E = users[E.id]
               /\ Len(weeks') - Len(weeks)
                      = Cardinality(SectionsOf(r.template))
               /\ \A i \in (Len(weeks) + 1)..Len(weeks') :
                     /\ weeks'[i].onboarding_plan_id = Some(r.plan.id)
                     /\ weeks'[i].owner_user_id = Some(E.id)
                     /\ weeks'[i].manager_user_id = users[E.id].manager_id
       /\ \A i \in DOMAIN weeks : weeks'[i] = weeks[i]]_vars

\* a week materialized for the report still names the manager of that time
\* after the report's manager_id was changed
C17_Witness ==
    /\ response = Idle
    /\ \E w \in WeekQuery :
          /\ w.id > Len(WeeksFixture)
          /\ w.owner_user_id = Some(2)
          /\ w.manager_user_id = Some(1)
          /\ users[2].manager_id = Some(3)
          /\ users[2].onboarding_plan_id = w.onboarding_plan_id

\* the plans created by assignment, the weeks of a plan and the tasks of
\* those weeks
AssignedPlans == {p \in PlanQuery : p.id > Len(PlansFixture)}
WeeksOfPlan(p) == {w \in WeekQuery : w.onboarding_plan_id = Some(p.id)}
TasksOfPlan(p) == {t \in TaskQuery : WeekOf(t) \in WeeksOfPlan(p)}

\* the template a plan was assigned from (template names are distinct)
TemplateOfPlan(p) == CHOOSE tpl \in TemplateQuery : tpl.name = p.name

\* C18: materializing the same Template twice for the same employee gives two
\* Plans with distinct ids, each with weeks and tasks of its own: the Week ids
\* and the Task ids of the two Plans are disjoint.
C18_TwoIndependentPlans ==
    /\ \A i \in DOMAIN plans : plans[i].id = i
    /\ \A i \in DOMAIN weeks : weeks[i].id = i
    /\ \A i \in DOMAIN tasks : tasks[i].id = i
    /\ \A p \in AssignedPlans :
          /\ Cardinality(WeeksOfPlan(p))
                 = Cardinality(SectionsOf(TemplateOfPlan(p)))
          /\ Cardinality(TasksOfPlan(p))
                 = Cardinality(UNION {TasksOf(sec) :
                                         sec \in SectionsOf(TemplateOfPlan(p))})
    /\ \A p, q \in AssignedPlans :
          p # q =>
            /\ p.id # q.id
            /\ {w.id : w \in WeeksOfPlan(p)} \cap {w.id : w \in WeeksOfPlan(q)}
                   = {}
            /\ {t.id : t \in TasksOfPlan(p)} \cap {t.id : t \in TasksOfPlan(q)}
                   = {}

\* template 1 was materialized twice for the report, from the same start
C18_Witness ==
    /\ response.handler = "assign_plan"
    /\ response.returned # None
    /\ response.returned[1].employee.id = 2
    /\ \E p \in AssignedPlans :
          /\ p.id # response.returned[1].plan.id
          /\ p.name = response.returned[1].plan.name
          /\ WeeksOfPlan(p) # {}
          /\ \E w \in WeeksOfPlan(p) :
                /\ w.owner_user_id = Some(2)
                /\ w.start_date = Some(response.returned[1].start_date)

-----------------------------------------------------------------------------
(* EditSpec: a template is edited before and after a plan was made from it *)

MaxSections == 4
MaxTemplateTasks == 5

\* template 1 is assigned once, to the report, by the manager
AssignPlanToReport ==
    /\ response = Idle
    /\ Len(plans) = Len(PlansFixture)
    /\ \E request \in {r \in StaffRequests : r.email = Some("manager@test.com")},
          form \in {f \in AssignForms :
                       f.template_id = <<"1">> /\ f.user_id = <<"2">>} :
          Apply("assign_plan", request, [form |-> form],
                assign_plan(request, form))

SectionForms ==
    {[title |-> <<" ", "S", "4">>, description |-> << >>,
      offset_days |-> <<"1", "4">>],
     [title |-> <<" ">>, description |-> <<"x">>, offset_days |-> << >>]}

AddTemplateSection ==
    /\ response = Idle
    /\ Len(sections) < MaxSections
    /\ \E request \in StaffRequests, template_id \in TemplateIdInputs,
          form \in SectionForms :
          Apply("add_template_section", request,
                [template_id |-> template_id, form |-> form],
                add_template_section(request, template_id, form))

\* a task due on day 2 of its section, with an offset that is not read, and a
\* form without title
TemplateTaskForms ==
    {[title |-> <<"n">>, description |-> <<"t">>,
      responsible_party |-> s_manager, due_type |-> DAY_WITHIN_SECTION,
      offset_days |-> <<"5">>, section_day |-> <<"2">>,
      is_required |-> <<"o", "n">>, category |-> << >>],
     [title |-> << >>, description |-> << >>, responsible_party |-> << >>,
      due_type |-> << >>, offset_days |-> <<"5">>, section_day |-> << >>,
      is_required |-> << >>, category |-> << >>]}

\* (template_id, section_id) of a section of the template and of a section of
\* another template
SectionPaths == {<<1, 1>>, <<1, 3>>}

AddTemplateTask ==
    /\ response = Idle
    /\ Len(template_tasks) < MaxTemplateTasks
    /\ \E request \in StaffRequests, path \in SectionPaths,
          form \in TemplateTaskForms :
          Apply("add_template_task", request,
                [template_id |-> path[1], section_id |-> path[2],
                 form |-> form],
                add_template_task(request, path[1], path[2], form))

\* (template_id, section_id, task_id) of a task and of a task of another
\* section
TaskPaths == {<<1, 1, 1>>, <<1, 2, 1>>}

UpdateTemplateTask ==
    /\ response = Idle
    /\ \E request \in StaffRequests, path \in TaskPaths,
          form \in TemplateTaskForms :
          Apply("update_template_task", request,
                [template_id |-> path[1], section_id |-> path[2],
                 task_id |-> path[3], form |-> form],
                update_template_task(request, path[1], path[2], path[3],
                                     form))

EditNext ==
    \/ AssignPlanToReport
    \/ AddTemplateSection
    \/ AddTemplateTask
    \/ UpdateTemplateTask
    \/ PublishTemplate
    \/ RetireTemplate
    \/ Teardown

EditSpec == AssignInit /\ [][EditNext]_vars

\* the template-editing handlers
TemplateEdits ==
    {"add_template_section", "add_template_task", "update_template_task",
     "publish_template", "retire_template"}

\* C19: a template-editing request (adding a section, adding or updating a
\* template task, publishing or retiring the template) leaves every Plan, Week
\* and Task unchanged, those materialized from the template included.
C19_EditsLeavePlansAlone ==
    [][response'.handler \in TemplateEdits =>
          UNCHANGED <<users, plans, weeks, tasks>>]_vars

\* task 1 of the template was rewritten after a plan was made from it, and
\* the materialized task still carries the old title and due date
C19_Witness ==
    /\ response.handler = "update_template_task"
    /\ response.status = 302
    /\ template_tasks[1].title = <<"n">>
    /\ template_tasks[1].due_type = DAY_WITHIN_SECTION
    /\ AssignedPlans # {}
    /\ \E t \in TaskQuery :
          /\ WeekOf(t).onboarding_plan_id = Some(Len(PlansFixture) + 1)
          /\ t.title = Some(<<"a">>)
          /\ t.due_date # None
          /\ t.due_date[1] = WeekOf(t).start_date[1] + 3

-----------------------------------------------------------------------------
(* TxnSpec: create_plan_from_template step by step, inside its transaction, *)
(* next to requests that read the store                                     *)

\* the tables a materialization writes
PlanStore ==
    [users |-> users, plans |-> plans, weeks |-> weeks, tasks |-> tasks]

\* variant: every flush is committed at once
after_flush_autocommit(committed, session) == session

\* db.session.flush(): the pending rows go to the database inside the open
\* transaction; what other connections read stays the committed store
after_flush(committed, session) == committed

\* db.session.commit(): the transaction's rows become the committed store
after_commit(committed, session) == session

\* the committed store becomes store
Committed(store) ==
    /\ users' = store.users
    /\ plans' = store.plans
    /\ weeks' = store.weeks
    /\ tasks' = store.tasks

\* the call is in its transaction
InTransaction ==
    call.fn = "create_plan_from_template" /\ call.pc = "running"

\* lines 201-234: the template is loaded, the plan is added and flushed, the
\* employee is pointed at it, the sections are sorted. One materialization
\* runs at a time: the database lets one transaction write.
BeginCreatePlan ==
    /\ call = NoCall
    /\ Len(plans) < MaxPlans
    /\ \E employee \in {users[1], users[2]}, start_date \in {Today} :
          LET tpl == GetById(TemplateQuery, 1)[1]
              plan == [id |-> Len(plans) + 1, name |-> tpl.name,
                       description |-> tpl.description]
              session ==
                  [PlanStore EXCEPT
                      !.plans = Append(plans, plan),
                      !.users[employee.id].onboarding_plan_id = Some(plan.id)]
          IN /\ call' = [fn |-> "create_plan_from_template", pc |-> "running",
                         template |-> tpl, employee |-> employee,
                         start_date |-> start_date, plan |-> plan,
                         todo |-> SortByOrderIndex(SectionsOf(tpl)),
                         all_weeks |-> << >>, session |-> session,
                         before |-> PlanStore]
             /\ Committed(after_flush(PlanStore, session))
    /\ UNCHANGED <<templates, sections, template_tasks, response>>

\* lines 238-292: one pass of the loop over the sections: the week is added
\* and flushed, its tasks are added
FlushWeek ==
    /\ InTransaction
    /\ call.todo # << >>
    /\ LET built == MaterializeSections(
                        <<Head(call.todo)>>, call.plan.id, call.employee,
                        call.start_date,
                        [weeks |-> call.session.weeks,
                         tasks |-> call.session.tasks,
                         all_weeks |-> call.all_weeks])
           session == [call.session EXCEPT !.weeks = built.weeks,
                                           !.tasks = built.tasks]
       IN /\ call' = [call EXCEPT !.todo = Tail(call.todo),
                                  !.all_weeks = built.all_weeks,
                                  !.session = session]
          /\ Committed(after_flush(PlanStore, session))
    /\ UNCHANGED <<templates, sections, template_tasks, response>>

\* line 294: db.session.commit(), then the plan and all_weeks are returned
CommitPlan ==
    /\ InTransaction
    /\ call.todo = << >>
    /\ call' = [call EXCEPT !.pc = "returned"]
    /\ Committed(after_commit(PlanStore, call.session))
    /\ UNCHANGED <<templates, sections, template_tasks, response>>

\* a flush or the commit raises: the exception leaves the function and the
\* view, nothing was committed
FailCreatePlan ==
    /\ InTransaction
    /\ call' = [call EXCEPT !.pc = "failed"]
    /\ UNCHANGED <<users, weeks, tasks, plan_tables, response>>

\* the request of the call ends: the session is removed, which rolls back
\* what was not committed
EndCreatePlan ==
    /\ call.fn = "create_plan_from_template"
    /\ call.pc \in {"returned", "failed"}
    /\ call' = NoCall
    /\ UNCHANGED <<users, weeks, tasks, plan_tables, response>>

TxnNext ==
    \/ BeginCreatePlan
    \/ FlushWeek
    \/ CommitPlan
    \/ FailCreatePlan
    \/ EndCreatePlan
    \/ Weeks
    \/ WeekDetail
    \/ Teardown

TxnSpec == AssignInit /\ [][TxnNext]_vars

\* a plan of the committed store has all the weeks and tasks of its template,
\* and no user points at a plan that is not there
PlansComplete ==
    /\ \A p \in AssignedPlans :
          /\ Cardinality(WeeksOfPlan(p))
                 = Cardinality(SectionsOf(TemplateOfPlan(p)))
          /\ Cardinality(TasksOfPlan(p))
                 = Cardinality(UNION {TasksOf(sec) :
                                         sec \in SectionsOf(TemplateOfPlan(p))})
    /\ \A u \in UserQuery :
          u.onboarding_plan_id # None =>
              u.onboarding_plan_id[1] \in {p.id : p \in PlanQuery}
    /\ \A w \in WeekQuery :
          w.onboarding_plan_id # None =>
              w.onboarding_plan_id[1] \in {p.id : p \in PlanQuery}

\* the section of the plan's template a week of the plan was made from
SectionOfPlanWeek(p, w) ==
    CHOOSE sec \in SectionsOf(TemplateOfPlan(p)) : sec.title = w.title

\* C20: materialization is atomic: when persisting fails before the final
\* commit nothing of the materialization is in the store (no Plan, Week, Task,
\* no change of the employee's plan reference), and no request running at the
\* same time sees a Plan with part of its Weeks or Tasks.
C20_Atomic ==
    /\ PlansComplete
    /\ (call.fn = "create_plan_from_template" /\ call.pc # "returned")
          => PlanStore = call.before
    /\ (call.fn = "create_plan_from_template" /\ call.pc = "returned")
          => PlanStore = call.session
    /\ (response.handler = "weeks" /\ response.status = 200) =>
          LET listed == response.body.context.weeks IN
          \A p \in AssignedPlans :
              (\E i \in DOMAIN listed :
                    listed[i].onboarding_plan_id = Some(p.id))
                => Len(listed) = Cardinality(SectionsOf(TemplateOfPlan(p)))
    /\ (response.handler = "week_detail" /\ response.status = 200) =>
          LET w == response.body.context.w IN
          \A p \in AssignedPlans :
              w.onboarding_plan_id = Some(p.id) =>
                  Len(response.body.context.tasks)
                      = Cardinality(TasksOf(SectionOfPlanWeek(p, w)))

\* the materialization failed after its first week was flushed, and a request
\* answered meanwhile listed the employee's earlier weeks
C20_Witness ==
    /\ call.fn = "create_plan_from_template"
    /\ call.pc = "failed"
    /\ Len(call.session.weeks) > Len(weeks)
    /\ call.session.users[2].onboarding_plan_id # users[2].onboarding_plan_id
    /\ response.handler = "weeks"
    /\ response.status = 200
    /\ response.body.context.user = 2
    /\ Len(response.body.context.weeks) = 1

-----------------------------------------------------------------------------
(* Claims on templates without sections, checked under AssignSpec *)

\* C21: assigning a published Template that has zero Sections creates a Plan
\* with zero Weeks and assigns it to the employee, and the request completes
\* by a redirect to a landing page rather than failing; a Section with zero
\* TemplateTasks yields a Week with zero Tasks.
C21_EmptyTemplateLands ==
    [][(response'.handler = "assign_plan" /\ response'.returned # None) =>
          LET r == response'.returned[1] IN
          /\ SectionsOf(r.template) = {} =>
                /\ plans' = Append(plans, r.plan)
                /\ weeks' = weeks
                /\ tasks' = tasks
                /\ users'[r.employee.id].onboarding_plan_id = Some(r.plan.id)
                /\ response'.status = 302
          /\ \A sec \in SectionsOf(r.template) :
                TasksOf(sec) = {} =>
                    \A i \in (Len(weeks) + 1)..Len(weeks') :
                        weeks'[i].title = sec.title =>
                            \A j \in DOMAIN tasks' :
                                tasks'[j].week_id # weeks'[i].id]_vars

-----------------------------------------------------------------------------
(* app.py: a template is created *)

\* POST /templates
create_template(request, form) ==
    LET user == current_user(request) IN
    IF user = None THEN Respond(404, [aborted |-> TRUE], Db)
    ELSE IF ~require_builder_or_admin(user[1])
         THEN Respond(403, [aborted |-> TRUE], Db)
    ELSE LET name == strip(form.name)
             description == strip(form.description)
         IN
         IF name = << >>
         THEN Respond(400,
                      [template |-> "template_new.html",
                       context |-> [user |-> user[1].id,
                                    error |-> "Template name is required.",
                                    form |-> [name |-> name,
                                              description |-> description]]],
                      Db)
         ELSE LET tpl == [id |-> Len(templates) + 1, name |-> name,
                          description |-> Some(description), status |-> DRAFT,
                          created_by_id |-> Some(user[1].id)]
              IN Respond(302,
                         [redirect |-> "edit_template",
                          values |-> [template_id |-> tpl.id]],
                         [Db EXCEPT !.templates = Append(templates, tpl)])

-----------------------------------------------------------------------------
(* LifecycleSpec: templates are created, published and retired *)

MaxTemplates == 5

TemplateForms ==
    {[name |-> <<" ", "N", "e", "w">>, description |-> << >>],
     [name |-> <<" ">>, description |-> <<"x">>]}

CreateTemplate ==
    /\ response = Idle
    /\ Len(templates) < MaxTemplates
    /\ \E request \in StaffRequests, form \in TemplateForms :
          Apply("create_template", request, [form |-> form],
                create_template(request, form))

LifecycleNext ==
    \/ CreateTemplate
    \/ PublishTemplate
    \/ RetireTemplate
    \/ Teardown

LifecycleSpec == AssignInit /\ [][LifecycleNext]_vars

\* the place of a status on the way draft, published, retired
Stage(status) ==
    CASE status = DRAFT -> 0
      [] status = PUBLISHED -> 1
      [] status = RETIRED -> 2

\* C22: across any sequence of publish and retire requests a Template's status
\* only moves forward along draft, published, retired and never back to an
\* earlier stage; once a Template is retired no publish or retire request
\* changes its status again. A created Template starts as a draft.
C22_StatusMovesForward ==
    [][/\ \A i \in DOMAIN templates :
             /\ i \in DOMAIN templates'
             /\ Stage(templates'[i].status) >= Stage(templates[i].status)
             /\ templates[i].status = RETIRED => templates'[i] = templates[i]
       /\ \A i \in DOMAIN templates' :
             i \notin DOMAIN templates => templates'[i].status = DRAFT]_vars

\* a template made by create_template has been retired, and a publish request
\* for it was answered with the redirect and left it retired
C22_Witness ==
    /\ response.handler = "publish_template"
    /\ response.status = 302
    /\ response.args.template_id > Len(TemplatesFixture)
    /\ templates[response.args.template_id].status = RETIRED

-----------------------------------------------------------------------------
(* TaskSpec: a plan is assigned to the report, tasks are added and edited *)

MaxStoredTasks == 5

\* who asks: the report, nobody known; with and without the role header
TaskRequests ==
    [email : {Some("user@test.com"), Some("nobody@test.com")},
     role : {None, Some(s_user)}, id : {None}]

\* the tasks the edits are for: the first, and one that is not there
EditedTaskIds == {1, Len(tasks) + 1}

\* a form with a goal and a form whose goal is blank
GoalForms ==
    {[goal |-> <<" ", "g">>, topic |-> << >>, notes |-> << >>,
      due_date |-> << >>],
     [goal |-> <<" ">>, topic |-> <<"t">>, notes |-> << >>,
      due_date |-> << >>]}

AddTaskToWeek ==
    /\ response = Idle
    /\ Len(tasks) < MaxStoredTasks
    /\ \E request \in TaskRequests, week_id \in WeekIdInputs,
          form \in GoalForms :
          Answer("add_task", request, [week_id |-> week_id, form |-> form],
                 add_task(request, week_id, form))

\* a label, a label in blanks, a label in lower case, no label
StatusLabelForms ==
    {[status |-> COMPLETE],
     [status |-> <<" ">> \o IN_PROGRESS \o <<" ">>],
     [status |-> <<"c", "o", "m", "p", "l", "e", "t", "e">>],
     [status |-> << >>]}

SetStatus ==
    /\ response = Idle
    /\ \E request \in TaskRequests, task_id \in EditedTaskIds,
          form \in StatusLabelForms, hx \in BOOLEAN :
          Answer("update_status", request,
                 [task_id |-> task_id, form |-> form, hx |-> hx],
                 update_status(request, task_id, form, hx))

\* the clear button, both inputs empty, a date, a text that is no date
DueDateInputs ==
    {[clear |-> <<"1">>, due_date |-> << >>, due_date_text |-> <<"x">>],
     [clear |-> << >>, due_date |-> << >>, due_date_text |-> <<" ">>],
     [clear |-> << >>, due_date |-> << >>,
      due_date_text |-> <<"1", "/", "7", "/", "2", "5">>],
     [clear |-> << >>, due_date |-> << >>,
      due_date_text |-> <<"s", "o", "o", "n">>]}

SetDueDate ==
    /\ response = Idle
    /\ \E request \in TaskRequests, task_id \in EditedTaskIds,
          form \in DueDateInputs, hx \in BOOLEAN :
          Answer("update_due_date", request,
                 [task_id |-> task_id, form |-> form, hx |-> hx],
                 update_due_date(request, task_id, form, hx))

ViewWeek ==
    /\ response = Idle
    /\ \E request \in TaskRequests, week_id \in WeekIdInputs :
          Answer("week_detail", request, [week_id |-> week_id],
                 week_detail(request, week_id))

ViewTask ==
    /\ response = Idle
    /\ \E handler \in TaskFragments, request \in TaskRequests,
          task_id \in TaskIdInputs :
          Answer(handler, request, [task_id |-> task_id],
                 DispatchFragment(handler, request, task_id))

TaskNext ==
    \/ AssignPlanToReport
    \/ AddTaskToWeek
    \/ SetStatus
    \/ SetDueDate
    \/ Teardown

TaskSpec == AssignInit /\ [][TaskNext]_vars

\* C23 (as stated): every Task's status is one of the three labels, a Task is
\* created as Not Started, and update_status stores a value only when the
\* submitted label is exactly one of the three labels.
C23_StatusOnlyOnExactLabel ==
    [][/\ \A i \in DOMAIN tasks' : tasks'[i].status \in StatusEnum
       /\ \A i \in DOMAIN tasks' :
             i \notin DOMAIN tasks => tasks'[i].status = NOT_STARTED
       /\ (response'.handler = "update_status" /\ tasks' # tasks) =>
             response'.args.form.status \in StatusEnum]_vars

\* C23 (amended): the same, with the label compared after the blanks around
\* it are stripped; the comparison is case-sensitive.
C23_StatusClosed ==
    [][/\ \A i \in DOMAIN tasks' : tasks'[i].status \in StatusEnum
       /\ \A i \in DOMAIN tasks' :
             i \notin DOMAIN tasks => tasks'[i].status = NOT_STARTED
       /\ \A i \in DOMAIN tasks :
             tasks'[i].status # tasks[i].status =>
                /\ response'.handler = "update_status"
                /\ response'.args.task_id = i
                /\ strip(response'.args.form.status) \in StatusEnum
                /\ tasks'[i].status = strip(response'.args.form.status)]_vars

\* a materialized task and a task made by add_task are in the store, and a
\* lower-case label was turned down for a task whose status had been changed
C23_Witness ==
    /\ response.handler = "update_status"
    /\ response.status = 400
    /\ response.args.form.status = <<"c", "o", "m", "p", "l", "e", "t", "e">>
    /\ response.args.task_id \in DOMAIN tasks
    /\ tasks[response.args.task_id].status = IN_PROGRESS
    /\ \E i \in DOMAIN tasks : tasks[i].title = Some(<<"g">>)
    /\ \E i \in DOMAIN tasks : tasks[i].title = Some(<<"a">>)

\* the label a status form submits is one of the labels as it stands, and
\* after the blanks around it are stripped
ExactLabel(form) == form.status \in StatusEnum
ValidLabel(form) == strip(form.status) \in StatusEnum

\* the request got past the scope and access checks of its task
Reached == response'.status \notin {403, 404}

RawDueDate(form) ==
    strip(IF form.due_date # << >> THEN form.due_date ELSE form.due_date_text)

\* C25 (as stated): update_due_date with empty input sets the due date to
\* null; with a non-empty input that cannot be parsed it leaves the stored due
\* date unchanged and answers 400; the stored date is never partially updated.
C25_UnparseableKeepsDate ==
    [][(response'.handler = "update_due_date" /\ Reached) =>
          LET form == response'.args.form
              i == response'.args.task_id
          IN /\ RawDueDate(form) = << >> => tasks'[i].due_date = None
             /\ (RawDueDate(form) # << >>
                   /\ _parse_due_date(RawDueDate(form)) = None) =>
                    /\ tasks' = tasks
                    /\ response'.status = 400]_vars

\* C25 (amended): the same for a request that does not carry clear=1; a
\* request that carries clear=1 sets the due date to null whatever its input.
\* The stored date is null, the parsed date or the date as it was, and nothing
\* else of the task changes.
C25_DueDateUpdate ==
    [][(response'.handler = "update_due_date" /\ Reached) =>
          LET form == response'.args.form
              i == response'.args.task_id
              raw == RawDueDate(form)
          IN /\ form.clear = <<"1">> => tasks'[i].due_date = None
             /\ (form.clear # <<"1">> /\ raw = << >>) =>
                    tasks'[i].due_date = None
             /\ (form.clear # <<"1">> /\ raw # << >>
                   /\ _parse_due_date(raw) = None) =>
                    /\ tasks' = tasks
                    /\ response'.status = 400
             /\ (form.clear # <<"1">> /\ _parse_due_date(raw) # None) =>
                    tasks'[i].due_date = _parse_due_date(raw)
             /\ tasks' = [tasks EXCEPT ![i].due_date = tasks'[i].due_date]]_vars

\* a text that is no date was turned down for a task that has a due date
C25_Witness ==
    /\ response.handler = "update_due_date"
    /\ response.status = 400
    /\ response.args.form.due_date_text = <<"s", "o", "o", "n">>
    /\ response.args.task_id \in DOMAIN tasks
    /\ tasks[response.args.task_id].due_date # None

\* the tasks of a week, and their places in the week
TasksOfWeek(week_id) == {t \in TaskQuery : t.week_id = week_id}
SortOrders(week_id) == {t.sort_order : t \in TasksOfWeek(week_id)}

\* C29: in a Week whose Tasks were created by materialization and by add_task
\* requests run one at a time, the Tasks' sort_order values are pairwise
\* distinct and are exactly 1..n for n tasks, and a task added by add_task
\* sorts after all the tasks already in the week.
C29_SortOrderDense ==
    [][/\ \A w \in DOMAIN weeks' :
             LET n == Cardinality(TasksOfWeek(w)') IN
             /\ SortOrders(w)' = {Some(k) : k \in 1..n}
             /\ \A t, u \in TasksOfWeek(w)' :
                   t.sort_order = u.sort_order => t = u
       /\ response'.handler = "add_task" =>
             \A i \in DOMAIN tasks' :
                i \notin DOMAIN tasks =>
                    \A t \in TasksOfWeek(tasks'[i].week_id) :
                        /\ t.sort_order[1] < tasks'[i].sort_order[1]
                        /\ TaskBefore(t, tasks'[i])]_vars

\* two tasks were added to the week that was materialized with two tasks
C29_Witness ==
    /\ response.handler = "add_task"
    /\ \E w \in DOMAIN weeks :
          /\ w > Len(WeeksFixture)
          /\ Cardinality(TasksOfWeek(w)) = 4
          /\ \E t \in TasksOfWeek(w) :
                t.id = Len(tasks) /\ t.sort_order = Some(4)

-----------------------------------------------------------------------------
(* FormSpec: the create and update forms, with and without the required field *)

FormNext ==
    \/ CreateTemplate
    \/ AddTemplateSection
    \/ AddTemplateTask
    \/ UpdateTemplateTask
    \/ AddTaskToWeek
    \/ Teardown

FormSpec == AssignInit /\ [][FormNext]_vars

\* the field a create or update form must carry, by handler
RequiredField(handler, form) ==
    CASE handler = "add_task" -> form.goal
      [] handler = "create_template" -> form.name
      [] OTHER -> form.title

\* C26: a create or update request submitted with a missing (empty after
\* trimming) required title, goal or name (add_task, create_template,
\* add_template_section, add_template_task, update_template_task) performs no
\* mutation: no entity is created and no stored field changes.
C26_MissingFieldNoMutation ==
    [][(/\ response'.handler \in
              {"add_task", "create_template", "add_template_section",
               "add_template_task", "update_template_task"}
        /\ strip(RequiredField(response'.handler, response'.args.form)) = << >>)
          => UNCHANGED <<users, weeks, tasks, plan_tables>>]_vars

-----------------------------------------------------------------------------
(* app.py: the reports of a manager *)

\* require_role(user, allowed_roles): TRUE when the role is let in
require_role(user, allowed_roles) == user.role \in allowed_roles

\* date.isoformat(): the year, month and day the text YYYY-MM-DD is made of
isoformat(ordinal) ==
    CHOOSE ymd \in (2023..2027) \X (1..12) \X (1..31) :
        /\ ymd[3] <= DaysInMonth(ymd[1], ymd[2])
        /\ ToOrdinal(ymd[1], ymd[2], ymd[3]) = ordinal

\* serialize_week(week)
serialize_week(week) ==
    LET ordered == OrderTasks({t \in TaskQuery : t.week_id = week.id}) IN
    [id |-> week.id, title |-> week.title,
     start_date |-> IF week.start_date # None
                    THEN Some(isoformat(week.start_date[1])) ELSE None,
     end_date |-> IF week.end_date # None
                  THEN Some(isoformat(week.end_date[1])) ELSE None,
     tasks |-> [i \in DOMAIN ordered |-> ordered[i].id]]

\* serialize_user_with_plan(user); full_name is not among the columns of the
\* users table here
serialize_user_with_plan(user) ==
    LET plan == IF user.onboarding_plan_id = None THEN None
                ELSE GetById(PlanQuery, user.onboarding_plan_id[1])
    IN [id |-> user.id, email |-> user.email, role |-> user.role,
        plan |-> IF plan = None THEN None
                 ELSE LET plan_weeks == weeks_for_plan(Some(plan[1].id)) IN
                      Some([id |-> plan[1].id, name |-> plan[1].name,
                            weeks |-> [i \in DOMAIN plan_weeks |->
                                          serialize_week(plan_weeks[i])]])]

\* ORDER BY users.id
RECURSIVE OrderById(_)
OrderById(rows) ==
    IF rows = {} THEN << >>
    ELSE LET first == CHOOSE r \in rows : \A q \in rows : r.id <= q.id
         IN <<first>> \o OrderById(rows \ {first})

\* variant: the users on the manager's plan are reports as well
direct_reports_and_plan_mates(manager) ==
    OrderById({u \in UserQuery :
                  \/ SqlEq(u.manager_id, Some(manager.id)) = "true"
                  \/ (u.id # manager.id
                        /\ SqlEq(u.onboarding_plan_id,
                                 manager.onboarding_plan_id) = "true")})

\* User.query.filter(User.manager_id == manager.id).order_by(User.id.asc())
direct_reports(manager) ==
    OrderById({u \in UserQuery :
                  SqlEq(u.manager_id, Some(manager.id)) = "true"})

\* GET /api/manager/reports
api_manager_reports(request) ==
    LET manager == current_user(request) IN
    IF manager = None THEN Respond(404, [aborted |-> TRUE], Db)
    ELSE IF ~require_role(manager[1], {s_manager, s_admin})
         THEN Respond(403, [aborted |-> TRUE], Db)
    ELSE LET reports == direct_reports(manager[1]) IN
         Respond(200,
                 [manager |-> [id |-> manager[1].id,
                               email |-> manager[1].email],
                  direct_reports |->
                      [i \in DOMAIN reports |->
                          serialize_user_with_plan(reports[i])]],
                 Db)

-----------------------------------------------------------------------------
(* ReportsSpec: the reports endpoint over drawn users tables *)

\* the users with roles, plans and managers drawn
UserStores ==
    {<< [UsersFixture[1] EXCEPT !.role = role_1],
        [UsersFixture[2] EXCEPT !.role = role_2, !.manager_id = manager_2,
                                !.onboarding_plan_id = plan_2],
        [UsersFixture[3] EXCEPT !.role = role_3, !.manager_id = manager_3,
                                !.onboarding_plan_id = plan_3] >> :
        role_1 \in {s_manager, s_builder},
        role_2 \in {s_user, s_manager},
        role_3 \in {s_admin, s_builder, s_user},
        manager_2 \in {None, Some(1), Some(3)},
        manager_3 \in {None, Some(1)},
        plan_2 \in {None, Some(1), Some(2)},
        plan_3 \in {None, Some(1)}}

ReportsInit ==
    /\ users \in UserStores
    /\ plans = PlansFixture
    /\ weeks = WeeksFixture
    /\ tasks = << >>
    /\ templates = TemplatesFixture
    /\ sections = SectionsFixture
    /\ template_tasks = TemplateTasksFixture
    /\ response = Idle
    /\ call = NoCall

\* who asks, with and without a role header
ReportRequests ==
    [email : {None, Some("manager@test.com"), Some("user@test.com"),
              Some("admin@test.com"), Some("nobody@test.com")},
     role : {None, Some(s_admin)}, id : {None}]

ManagerReports ==
    /\ response = Idle
    /\ \E request \in ReportRequests :
          Apply("api_manager_reports", request, << >>,
                api_manager_reports(request))

ReportsNext ==
    \/ ManagerReports
    \/ Teardown

ReportsSpec == ReportsInit /\ [][ReportsNext]_vars

\* C27: GET /api/manager/reports returns exactly the users whose manager_id
\* equals the acting user's id (no other users, whatever their plan) when the
\* acting user's role is manager or admin, and 403 for every acting user with
\* any other role.
C27_OnlyDirectReports ==
    response.handler = "api_manager_reports" =>
        LET acting == current_user(response.request) IN
        /\ acting = None => response.status = 404
        /\ (acting # None /\ acting[1].role \notin {s_manager, s_admin}) =>
              response.status = 403
        /\ (acting # None /\ acting[1].role \in {s_manager, s_admin}) =>
              LET listed == response.body.direct_reports IN
              /\ response.status = 200
              /\ response.body.manager.id = acting[1].id
              /\ {listed[i].id : i \in DOMAIN listed}
                     = {u.id : u \in {v \in UserQuery :
                                         v.manager_id = Some(acting[1].id)}}
              /\ \A i, j \in DOMAIN listed :
                    i < j => listed[i].id < listed[j].id
              /\ \A i \in DOMAIN listed :
                    listed[i] = serialize_user_with_plan(users[listed[i].id])

\* the manager was given the report, who is on another plan, and not the user
\* on the manager's own plan
C27_Witness ==
    /\ response.handler = "api_manager_reports"
    /\ response.status = 200
    /\ response.body.manager.id = 1
    /\ Len(response.body.direct_reports) = 1
    /\ response.body.direct_reports[1].id = 2
    /\ response.body.direct_reports[1].plan # None
    /\ response.body.direct_reports[1].plan[1].id = 2
    /\ Len(response.body.direct_reports[1].plan[1].weeks) = 1
    /\ users[3].onboarding_plan_id = users[1].onboarding_plan_id

-----------------------------------------------------------------------------
(* PrincipalSpec: resolve_principal for drawn requests and users *)

CallResolvePrincipal ==
    /\ call = NoCall
    /\ \E request \in Requests, user \in UserQuery, w \in WeekQuery :
          LET principal == resolve_principal(request, user) IN
          call' = [fn |-> "resolve_principal", request |-> request,
                   user |-> user, week |-> w, result |-> principal,
                   decision |-> ensure_week_access(principal, w)]
    /\ UNCHANGED <<users, weeks, tasks, plan_tables, response>>

\* the request of the call is over
ReturnPrincipal ==
    /\ call.fn = "resolve_principal"
    /\ call' = NoCall
    /\ UNCHANGED <<users, weeks, tasks, plan_tables, response>>

PrincipalNext ==
    \/ CallResolvePrincipal
    \/ ReturnPrincipal

PrincipalSpec == Init /\ [][PrincipalNext]_vars

\* C28: when the request carries an X-User-Role or X-User-Id header the
\* principal of the week access check is made of the header values only (role
\* user when the role header is absent, user_id null when the id header is
\* absent or no integer) and the stored id and role of the user are ignored;
\* without both headers the principal is (user.id, user.role). Two requests by
\* different stored users with the same headers get the same
\* ensure_week_access decision for the same week.
C28_HeadersMakeThePrincipal ==
    call.fn = "resolve_principal" =>
        LET headers == call.request IN
        IF headers.role # None \/ headers.id # None
        THEN /\ call.result.role
                    = IF headers.role = None THEN s_user ELSE headers.role[1]
             /\ call.result.user_id
                    = IF headers.id = None \/ ~IsDigits(headers.id[1])
                      THEN None
                      ELSE Some(DecimalValue(headers.id[1]))
             /\ \A other \in UserQuery :
                    ensure_week_access(resolve_principal(headers, other),
                                       call.week) = call.decision
        ELSE call.result = [user_id |-> Some(call.user.id),
                            role |-> call.user.role]

\* the report, sending only the role header admin, passes the access check of
\* the manager's week
C28_Witness ==
    /\ call.fn = "resolve_principal"
    /\ call.request.role = Some(s_admin)
    /\ call.request.id = None
    /\ call.user.id = 2
    /\ call.user.role = s_user
    /\ call.week.owner_user_id = Some(1)
    /\ call.result = [user_id |-> None, role |-> s_admin]
    /\ call.decision = "return"

-----------------------------------------------------------------------------
(* ReassignSpec: the report is assigned a plan, and then another *)

\* POST /assign by the manager: template 1 for the report, starting today
AssignToReport ==
    /\ response = Idle
    /\ Len(plans) < MaxPlans
    /\ LET request == [email |-> Some("manager@test.com"), role |-> None,
                       id |-> None]
           form == [template_id |-> <<"1">>, user_id |-> <<"2">>,
                    start_date |-> << >>]
       IN Apply("assign_plan", request, [form |-> form],
                assign_plan(request, form))

ReassignNext ==
    \/ AssignToReport
    \/ ViewWeek
    \/ ViewTask
    \/ AddTaskToWeek
    \/ SetStatus
    \/ Teardown

ReassignSpec == AssignInit /\ [][ReassignNext]_vars

\* the plans assigned to the report before the present one, their weeks and
\* their tasks
EarlierPlans == {p \in AssignedPlans : Some(p.id) # users[2].onboarding_plan_id}
EarlierWeeks == UNION {WeeksOfPlan(p) : p \in EarlierPlans}
EarlierTasks == UNION {TasksOfPlan(p) : p \in EarlierPlans}

\* the week or the task a request names, as a set of weeks
NamedWeeks ==
    IF response.handler \in {"week_detail", "add_task"}
    THEN {w \in WeekQuery : w.id = response.args.week_id}
    ELSE IF response.handler \in TaskFragments \cup {"update_status"}
    THEN {WeekOf(t) : t \in {u \in TaskQuery : u.id = response.args.task_id}}
    ELSE {}

\* C30: after two successive assignments to the same employee the employee's
\* onboarding_plan_id is the id of the Plan created last; the earlier Plan
\* with its Weeks and Tasks is still in the store, and every week- or
\* task-scoped request by the employee for a Week or Task of the earlier Plan
\* is answered 404, though the employee is still their owner_user_id.
C30_EarlierPlanOutOfReach ==
    /\ AssignedPlans # {} => users[2].onboarding_plan_id = Some(Len(plans))
    /\ \A p \in AssignedPlans :
          /\ Cardinality(WeeksOfPlan(p)) = Cardinality(SectionsOf(TemplateOfPlan(p)))
          /\ Cardinality(TasksOfPlan(p)) >= 3
          /\ \A w \in WeeksOfPlan(p) : w.owner_user_id = Some(2)
    /\ (/\ response.handler # "idle"
        /\ response.handler # "assign_plan"
        /\ response.request.email = Some("user@test.com")
        /\ NamedWeeks \cap EarlierWeeks # {})
          => response.status = 404

\* after the second assignment the report asked for the first week of the
\* first assigned plan, which the report owns, and was answered 404
C30_Witness ==
    /\ Cardinality(AssignedPlans) = 2
    /\ Cardinality(EarlierTasks) = 3
    /\ response.handler = "week_detail"
    /\ response.request.email = Some("user@test.com")
    /\ response.status = 404
    /\ \E w \in EarlierWeeks :
          /\ w.id = response.args.week_id
          /\ w.owner_user_id = Some(2)

=============================================================================
